---- MODULE Spec2Model ----
(***************************************************************************)
(* Authentication-form detector (getcovered-assessment).                   *)
(*                                                                         *)
(* parseHtmlForAuthForms (src/app/utils/htmlParser.ts) exists in two      *)
(* variants: the permissive one (lines 61-286) and the strict one (lines   *)
(* 428-679).  Both are modelled, step by step, over a bounded family of    *)
(* documents as cheerio.load produces them: html > body > nested wrapper   *)
(* elements, with input elements, text nodes and buttons inside.           *)
(* Strings are TLA+ strings; includes, toLowerCase, join and the markup    *)
(* serialisation are computed character by character.                      *)
(***************************************************************************)
EXTENDS Integers, Sequences, FiniteSets, TLC

(***************************************************************************)
(* JavaScript values                                                       *)
(***************************************************************************)

\* The value of an attribute that is not there (cheerio's attr returns undefined).
Undefined == "<undefined>"

\* The null of formElement, parentElement and bestParent's markup.
Null == "<null>"

\* JavaScript truthiness of a string-or-undefined value.
Truthy(v) == v # Undefined /\ v # ""

\* a || b
Or(a, b) == IF Truthy(a) THEN a ELSE b

\* s.includes(kw)
Includes(s, kw) ==
    \E i \in 1..(Len(s) - Len(kw) + 1) : SubSeq(s, i, i + Len(kw) - 1) = kw

\* The lower-case letter of each upper-case letter.
LowerOf ==
    [ A |-> "a", B |-> "b", C |-> "c", D |-> "d", E |-> "e", F |-> "f", G |-> "g",
      H |-> "h", I |-> "i", J |-> "j", K |-> "k", L |-> "l", M |-> "m", N |-> "n",
      O |-> "o", P |-> "p", Q |-> "q", R |-> "r", S |-> "s", T |-> "t", U |-> "u",
      V |-> "v", W |-> "w", X |-> "x", Y |-> "y", Z |-> "z" ]

LowerChar(c) == IF c \in DOMAIN LowerOf THEN LowerOf[c] ELSE c

RECURSIVE LowerFrom(_, _)
LowerFrom(s, i) ==
    IF i > Len(s) THEN "" ELSE LowerChar(SubSeq(s, i, i)) \o LowerFrom(s, i + 1)

\* s.toLowerCase()
ToLowerCase(s) == LowerFrom(s, 1)

\* v?.toLowerCase() || ''
LowerOrEmpty(v) == IF Truthy(v) THEN ToLowerCase(v) ELSE ""

RECURSIVE Join(_, _)
\* parts.join(sep)
Join(parts, sep) ==
    IF Len(parts) = 0 THEN ""
    ELSE IF Len(parts) = 1 THEN parts[1]
    ELSE parts[1] \o sep \o Join(Tail(parts), sep)

Digits == "0123456789"

RECURSIVE NumberToString(_)
\* `${index}` of a non-negative integer.
NumberToString(n) ==
    IF n < 10 THEN SubSeq(Digits, n + 1, n + 1)
    ELSE NumberToString(n \div 10) \o SubSeq(Digits, (n % 10) + 1, (n % 10) + 1)

\* patterns.some(p => text.includes(p))
SomeIncluded(patterns, text) == \E p \in patterns : Includes(text, p)

(***************************************************************************)
(* The document tree                                                       *)
(*                                                                         *)
(* spine[1] is html, spine[2] is body, spine[i+1] is the one element child *)
(* of spine[i].  An element holds, in document order: its own text node,   *)
(* the inputs placed before its element child, the element child, the      *)
(* inputs placed after it, and a button.  inputs is in document order;     *)
(* inputs[k].at is the spine index of the input's parent element.          *)
(***************************************************************************)

\* The eleven attributes the scanner reads, in the order of the source.
ScannedAttributes ==
    <<"name", "id", "placeholder", "type", "class", "aria-label",
      "aria-labelledby", "autocomplete", "data-testid", "data-cy", "data-test">>

\* The attributes serialised into an input's markup, in a fixed order.
MarkupAttributes ==
    <<"type", "id", "name", "placeholder", "class", "value">>

\* $input.attr(a)
Attr(input, a) ==
    IF a \in DOMAIN input.attrs THEN input.attrs[a] ELSE Undefined

\* $el.parent(): the spine index of the parent; 0 is the empty selection
\* (the parent of html).
ParentOf(i) == i - 1

\* $el.prop('tagName')?.toLowerCase()
TagName(doc, i) == ToLowerCase(doc.spine[i].tag)

\* $el.find('input'): the indices (document order) of the inputs below element i.
FindInputs(doc, i) ==
    SelectSeq([k \in 1..Len(doc.inputs) |-> k], LAMBDA k : doc.inputs[k].at >= i)

\* $input.closest('form'): the nearest ancestor that is a form; 0 when none.
ClosestForm(doc, k) ==
    LET forms == {i \in 1..doc.inputs[k].at : doc.spine[i].tag = "form"}
    IN  IF forms = {} THEN 0 ELSE CHOOSE i \in forms : \A j \in forms : j <= i

RECURSIVE TextFrom(_, _)
\* $el.text(): the text nodes below element i, concatenated in document order.
TextFrom(doc, i) ==
    IF i > Len(doc.spine) THEN ""
    ELSE doc.spine[i].text \o TextFrom(doc, i + 1)
         \o (IF doc.spine[i].button = Undefined THEN "" ELSE doc.spine[i].button)

\* $el.find('button, input[type="submit"], a'): the elements of the spine, at or
\* below i, that hold a button.
FindButtons(doc, i) ==
    IF i = 0 THEN {} ELSE {j \in i..Len(doc.spine) : doc.spine[j].button # Undefined}

RECURSIVE ButtonsText(_, _, _)
\* $buttons.text(): the buttons' texts in document order (a button is the last
\* child of its element, so the innermost comes first).
ButtonsText(doc, buttons, j) ==
    IF j = 0 THEN ""
    ELSE (IF j \in buttons THEN doc.spine[j].button ELSE "")
         \o ButtonsText(doc, buttons, j - 1)

RECURSIVE AttrsMarkup(_, _)
AttrsMarkup(input, names) ==
    IF Len(names) = 0 THEN ""
    ELSE (IF Attr(input, names[1]) = Undefined THEN ""
          ELSE " " \o names[1] \o "=\"" \o Attr(input, names[1]) \o "\"")
         \o AttrsMarkup(input, Tail(names))

\* $input.prop('outerHTML')
InputOuterHTML(input) == "<input" \o AttrsMarkup(input, MarkupAttributes) \o ">"

\* Whether input k lies before the element child of its parent.
BeforeChild(doc, k) ==
    \/ \E m \in (k + 1)..Len(doc.inputs) : doc.inputs[m].at > doc.inputs[k].at
    \/ ~ \E m \in 1..Len(doc.inputs) : doc.inputs[m].at > doc.inputs[k].at

RECURSIVE InputsMarkup(_, _)
InputsMarkup(doc, ks) ==
    IF Len(ks) = 0 THEN ""
    ELSE InputOuterHTML(doc.inputs[ks[1]]) \o InputsMarkup(doc, Tail(ks))

RECURSIVE OuterHTML(_, _)
\* $el.prop('outerHTML'): the markup of element i and everything below it.
OuterHTML(doc, i) ==
    IF i > Len(doc.spine) THEN ""
    ELSE LET el   == doc.spine[i]
             all  == [k \in 1..Len(doc.inputs) |-> k]
             here == SelectSeq(all, LAMBDA k : doc.inputs[k].at = i)
             pre  == SelectSeq(here, LAMBDA k : BeforeChild(doc, k))
             post == SelectSeq(here, LAMBDA k : ~BeforeChild(doc, k))
         IN  "<" \o el.tag \o ">"
             \o (IF el.tag = "html" THEN "<head></head>" ELSE "")
             \o el.text
             \o InputsMarkup(doc, pre)
             \o OuterHTML(doc, i + 1)
             \o InputsMarkup(doc, post)
             \o (IF el.button = Undefined THEN ""
                 ELSE "<button>" \o el.button \o "</button>")
             \o "</" \o el.tag \o ">"

(***************************************************************************)
(* The bounded family of documents                                         *)
(***************************************************************************)

\* At most this many input elements in a document.
MaxInputs == 2

\* At most this many plain wrappers between the outer and the inner element.
MaxPad == 10

\* The walk's depth cap (const maxDepth = 10).
maxDepth == 10

Element(tag, ctx) == [tag |-> tag, text |-> ctx.text, button |-> ctx.button]

NoContext == [text |-> "", button |-> Undefined]

\* Text and button found near the inputs: strong text with a strong button,
\* strong text alone, and a weak button alone.
Contexts ==
    { [text |-> "Sign in", button |-> "Log in"],
      [text |-> "Sign in", button |-> Undefined],
      [text |-> "", button |-> "Next"] }

PlainDiv == Element("div", NoContext)

Pads(n) == [i \in 1..n |-> PlainDiv]

Top(bodyCtx) == <<Element("html", NoContext), Element("body", bodyCtx)>>

\* The input elements documents are made of.
InputPalette ==
    { [type |-> "password", id |-> "password", name |-> "user"],
      [type |-> "password", id |-> "password", name |-> "b"],
      [type |-> "password"],
      [type |-> "text", id |-> "password", name |-> "user"],
      [type |-> "email", name |-> "e"],
      [type |-> "email", id |-> "x"],
      [id |-> "login"],
      [type |-> "text", placeholder |-> "Search"],
      [type |-> "text", placeholder |-> "User ID", class |-> "user-field"],
      [type |-> "hidden", name |-> "csrf", value |-> "tok"] }

\* The inputs of the deeply nested documents.
DeepPalette ==
    { [type |-> "password"],
      [type |-> "email", name |-> "e"],
      [type |-> "text", placeholder |-> "Search"] }

\* Pad sizes around the depth cap.
DeepPads == (maxDepth - 2)..MaxPad

\* The levels of a sequence of inputs in document order rise to the innermost
\* level and then fall: an element, once closed, is not entered again.
Unimodal(levels) ==
    \A i, j, k \in 1..Len(levels) :
        (i < j /\ j < k) => ~(levels[j] < levels[i] /\ levels[j] < levels[k])

\* The inputs a document may hold beyond its first two.
ExtraPalette ==
    { [type |-> "hidden", name |-> "csrf", value |-> "tok"] }

\* The input sequences of a document: n inputs placed at levels, the first two
\* drawn from palette and the further ones from ExtraPalette.
PlacedInputs(n, palette, levels) ==
    { s \in [1..n -> [at : levels, attrs : palette \cup ExtraPalette]] :
        /\ Unimodal([k \in 1..n |-> s[k].at])
        /\ \A k \in 1..n : IF k <= 2 THEN s[k].attrs \in palette
                                     ELSE s[k].attrs \in ExtraPalette }

\* body > outer > plain wrappers > inner.
TwoLevelSpine(tags, ctxs, p) ==
    Top(NoContext) \o <<Element(tags[1], ctxs[1])>> \o Pads(p)
        \o <<Element(tags[2], ctxs[2])>>

\* Nested forms do not exist in a parsed document.
TwoLevelTags == {<<"div", "div">>, <<"form", "div">>, <<"div", "form">>}

TwoLevelContexts ==
    {<<NoContext, NoContext>>}
        \cup {<<x, NoContext>> : x \in Contexts}
        \cup {<<NoContext, x>> : x \in Contexts}

\* Documents whose inputs sit directly in body.
FlatDoc(d) ==
    \E c \in Contexts \cup {NoContext}, n \in 0..MaxInputs :
        \E ins \in PlacedInputs(n, InputPalette, {2}) :
            d = [spine |-> Top(c), inputs |-> ins]

\* body > one element; inputs in body or in the element.
OneLevelDoc(d) ==
    \E t \in {"div", "form"}, c \in Contexts \cup {NoContext}, n \in 0..MaxInputs :
        \E ins \in PlacedInputs(n, InputPalette, {2, 3}) :
            d = [spine |-> Top(NoContext) \o <<Element(t, c)>>, inputs |-> ins]

\* body > outer > inner; inputs in outer or in inner.
TwoLevelDoc(d) ==
    \E t \in TwoLevelTags, c \in TwoLevelContexts, n \in 0..MaxInputs :
        \E ins \in PlacedInputs(n, InputPalette, {3, 4}) :
            d = [spine |-> TwoLevelSpine(t, c, 0), inputs |-> ins]

\* body > outer > plain wrappers > inner, the wrappers reaching the depth cap.
DeepDoc(d) ==
    \E t \in TwoLevelTags, p \in DeepPads, n \in 0..MaxInputs :
        \E ins \in PlacedInputs(n, DeepPalette, {3, 4 + p}) :
            d = [spine |-> TwoLevelSpine(t, <<NoContext, NoContext>>, p),
                 inputs |-> ins]

IsDocument(d) == FlatDoc(d) \/ OneLevelDoc(d) \/ TwoLevelDoc(d) \/ DeepDoc(d)

Modes == {"permissive", "strict"}

(***************************************************************************)
(* The candidate input scanner                                             *)
(***************************************************************************)

\* [name, id, ...].filter(attr => attr && attr !== 'undefined').join(' ').toLowerCase()
Attributes(input) ==
    LET values == [i \in 1..Len(ScannedAttributes) |-> Attr(input, ScannedAttributes[i])]
        kept   == SelectSeq(values, LAMBDA v : Truthy(v) /\ v # "undefined")
    IN  ToLowerCase(Join(kept, " "))

authTextPatterns ==
    { "sign in", "signin", "log in", "login", "log in to",
      "enter your password", "password", "username", "email",
      "forgot password", "reset password", "create account",
      "authentication", "credentials", "access" }

authButtonPatterns ==
    { "sign in", "signin", "log in", "login", "submit",
      "continue", "next", "enter", "access" }

strongAuthTextPatterns ==
    { "sign in", "signin", "log in", "login", "log in to",
      "enter your password", "forgot password", "reset password",
      "create account", "sign up", "register" }

strongAuthButtonPatterns ==
    { "sign in", "signin", "log in", "login", "sign up", "register" }

\* $parent.text().toLowerCase() of input k of document d.
ParentText(d, k) == ToLowerCase(TextFrom(d, d.inputs[k].at))

\* $form.length ? $form.text().toLowerCase() : ''
FormText(d, k) ==
    IF ClosestForm(d, k) # 0 THEN ToLowerCase(TextFrom(d, ClosestForm(d, k))) ELSE ""

\* $parent.find(buttons).add($form.find(buttons)).text().toLowerCase()
ButtonText(d, k) ==
    LET nearbyButtons == FindButtons(d, d.inputs[k].at)
                             \cup FindButtons(d, ClosestForm(d, k))
    IN  ToLowerCase(ButtonsText(d, nearbyButtons, Len(d.spine)))

\* A context check of the permissive variant that wants both kinds of evidence.
hasAuthenticationContextPermissive_Both(d, k) ==
    /\ \E pattern \in authTextPatterns :
           Includes(ParentText(d, k), pattern) \/ Includes(FormText(d, k), pattern)
    /\ SomeIncluded(authButtonPatterns, ButtonText(d, k))

\* hasAuthenticationContext, permissive variant: text evidence or button evidence.
hasAuthenticationContextPermissive(d, k) ==
    LET parentText    == ParentText(d, k)
        formText      == FormText(d, k)
        hasAuthText   == \E pattern \in authTextPatterns :
                             Includes(parentText, pattern) \/ Includes(formText, pattern)
        hasAuthButton == SomeIncluded(authButtonPatterns, ButtonText(d, k))
    IN  hasAuthText \/ hasAuthButton

\* A context check of the strict variant that is content with either kind of
\* evidence.
hasAuthenticationContextStrict_Either(d, k) ==
    \/ \E pattern \in strongAuthTextPatterns :
           Includes(ParentText(d, k), pattern) \/ Includes(FormText(d, k), pattern)
    \/ SomeIncluded(strongAuthButtonPatterns, ButtonText(d, k))

\* hasAuthenticationContext, strict variant: strong text and strong button.
hasAuthenticationContextStrict(d, k) ==
    LET parentText          == ParentText(d, k)
        formText            == FormText(d, k)
        hasStrongAuthText   == \E pattern \in strongAuthTextPatterns :
                                   Includes(parentText, pattern) \/ Includes(formText, pattern)
        hasStrongAuthButton == SomeIncluded(strongAuthButtonPatterns, ButtonText(d, k))
    IN  hasStrongAuthText /\ hasStrongAuthButton

authKeywords ==
    { "password", "pass", "passwd", "pwd",
      "email", "username", "user", "login", "signin", "sign-in",
      "authentication", "auth", "credential" }

strongAuthKeywords ==
    { "email", "username", "user", "login", "signin", "sign-in" }

\* The filter callback of the permissive variant.
IsAuthInputPermissive(d, k) ==
    LET input           == d.inputs[k]
        attributes      == Attributes(input)
        inputValue      == Or(Attr(input, "value"), "")
        isPasswordField == \/ Includes(attributes, "password")
                           \/ Includes(attributes, "pass")
                           \/ Includes(attributes, "pwd")
                           \/ (Truthy(inputValue) /\ Len(inputValue) > 0
                                  /\ Includes(attributes, "hidden"))
        hasAuthKeyword  == SomeIncluded(authKeywords, attributes)
        hasAuthPattern  == \/ Includes(attributes, "current-password")
                           \/ Includes(attributes, "new-password")
                           \/ Includes(attributes, "username")
                           \/ Includes(attributes, "email")
                           \/ Includes(attributes, "login")
                           \/ Includes(attributes, "signin")
    IN  IF Attr(input, "type") = "password" THEN TRUE
        ELSE \/ isPasswordField
             \/ hasAuthKeyword
             \/ hasAuthPattern
             \/ hasAuthenticationContextPermissive(d, k)

\* The filter callback of the strict variant.
IsAuthInputStrict(d, k) ==
    LET input                == d.inputs[k]
        attributes           == Attributes(input)
        hasStrongAuthKeyword == SomeIncluded(strongAuthKeywords, attributes)
    IN  IF Attr(input, "type") = "password" THEN TRUE
        ELSE hasStrongAuthKeyword /\ hasAuthenticationContextStrict(d, k)

\* allInputs.filter(...): the candidates, in document order.
FilterAuthInputs(m, d) ==
    SelectSeq([k \in 1..Len(d.inputs) |-> k],
              LAMBDA k : IF m = "permissive" THEN IsAuthInputPermissive(d, k)
                         ELSE IsAuthInputStrict(d, k))

\* $('input[type="password"]')
SelectPasswordInputs(d) ==
    SelectSeq([k \in 1..Len(d.inputs) |-> k],
              LAMBDA k : Attr(d.inputs[k], "type") = "password")

(***************************************************************************)
(* The report                                                              *)
(***************************************************************************)

\* The negative report, returned as a literal at every negative return.
EmptyReport ==
    [ hasPasswordInput |-> FALSE, formElement |-> Null, parentElement |-> Null,
      inputCount |-> 0, passwordInputs |-> <<>>, otherInputs |-> <<>> ]

\* const authForm: AuthForm = { hasPasswordInput: true, ... }
NewAuthForm == [EmptyReport EXCEPT !.hasPasswordInput = TRUE]

\* `${type || 'input'}[${inputId ? `id="${inputId}"` : `name="${name}"`}]`
InputSelector(input, index) ==
    LET inputId == Or(Attr(input, "id"),
                      Or(Attr(input, "name"), "input-" \o NumberToString(index)))
    IN  Or(Attr(input, "type"), "input") \o "["
        \o (IF Truthy(inputId) THEN "id=\"" \o inputId \o "\""
            ELSE "name=\"" \o Attr(input, "name") \o "\"")
        \o "]"

\* The record pushed on allAuthInputs for input k.
InputDetails(d, k) ==
    [ element     |-> k,
      selector    |-> Or(InputOuterHTML(d.inputs[k]), ""),
      name        |-> Or(Attr(d.inputs[k], "name"), Undefined),
      id          |-> Or(Attr(d.inputs[k], "id"), Undefined),
      placeholder |-> Or(Attr(d.inputs[k], "placeholder"), Undefined),
      type        |-> Or(Attr(d.inputs[k], "type"), Undefined) ]

RECURSIVE CollectFrom(_, _, _, _)
\* authInputs.each((index, element) => ...), from index on: an input whose
\* selector was seen is skipped, the others are pushed.
CollectFrom(d, auth, index, acc) ==
    IF index >= Len(auth) THEN acc
    ELSE LET k             == auth[index + 1]
             inputSelector == InputSelector(d.inputs[k], index)
         IN  IF inputSelector \in acc.processedInputs
             THEN CollectFrom(d, auth, index + 1, acc)
             ELSE CollectFrom(d, auth, index + 1,
                     [ processedInputs |-> acc.processedInputs \cup {inputSelector},
                       allAuthInputs   |-> Append(acc.allAuthInputs, InputDetails(d, k)) ])

\* A categorisation by keyword instead of by type.
IsPasswordInput_ByKeyword(d, input) ==
    Includes(Attributes(d.inputs[input.element]), "password")

\* Whether a collected input is pushed on passwordInputs.
IsPasswordInput(d, input) == Attr(d.inputs[input.element], "type") = "password"

PasswordDescriptor(input) ==
    [ selector |-> input.selector, name |-> input.name, id |-> input.id,
      placeholder |-> input.placeholder, type |-> input.type ]

OtherDescriptor(input) ==
    [ type |-> Or(input.id, Or(input.type, "text")),
      name |-> input.name, id |-> input.id, placeholder |-> input.placeholder ]

\* allAuthInputs.forEach: the password descriptors, in order.
CategorisedPasswordInputs(d, all) ==
    LET kept == SelectSeq(all, LAMBDA input : IsPasswordInput(d, input))
    IN  [n \in 1..Len(kept) |-> PasswordDescriptor(kept[n])]

\* allAuthInputs.forEach: the other descriptors, in order.
CategorisedOtherInputs(d, all) ==
    LET kept == SelectSeq(all, LAMBDA input : ~IsPasswordInput(d, input))
    IN  [n \in 1..Len(kept) |-> OtherDescriptor(kept[n])]

\* i.id === input.id && i.name === input.name && i.type === input.type
SameTriple(a, b) == a.id = b.id /\ a.name = b.name /\ a.type = b.type

\* A deduplication that filters nothing.
UniqueInputs_KeepAll(list) == list

\* list.filter((input, index, self) => index === self.findIndex(same triple))
UniqueInputs(list) ==
    LET kept == SelectSeq([i \in 1..Len(list) |-> i],
                          LAMBDA i : \A j \in 1..(i - 1) : ~SameTriple(list[j], list[i]))
    IN  [n \in 1..Len(kept) |-> list[kept[n]]]

\* The callback of finalHasEmailUsernameInputs.
IsEmailUsernameDescriptor(input) ==
    LET name        == ToLowerCase(Or(input.name, ""))
        id          == ToLowerCase(Or(input.id, ""))
        placeholder == ToLowerCase(Or(input.placeholder, ""))
        type        == ToLowerCase(Or(input.type, ""))
    IN  \/ type = "email"
        \/ Includes(name, "email") \/ Includes(name, "username") \/ Includes(name, "user")
        \/ Includes(id, "email") \/ Includes(id, "username") \/ Includes(id, "user")
        \/ Includes(placeholder, "email") \/ Includes(placeholder, "username")

\* A negative return that only clears the flag of the report under construction.
FinalValidationResult_KeepFields(form) ==
    IF Len(form.passwordInputs) = 0
       /\ ~\E i \in 1..Len(form.otherInputs) : IsEmailUsernameDescriptor(form.otherInputs[i])
    THEN [form EXCEPT !.hasPasswordInput = FALSE]
    ELSE form

\* !finalHasPasswordInputs && !finalHasEmailUsernameInputs ? negative : authForm
FinalValidationResult(form) ==
    LET finalHasPasswordInputs      == Len(form.passwordInputs) > 0
        finalHasEmailUsernameInputs ==
            \E i \in 1..Len(form.otherInputs) : IsEmailUsernameDescriptor(form.otherInputs[i])
    IN  IF ~finalHasPasswordInputs /\ ~finalHasEmailUsernameInputs
        THEN EmptyReport
        ELSE form

(***************************************************************************)
(* The container locator                                                   *)
(***************************************************************************)

\* The filter callback of hasEmailUsername.
IsEmailUsernameInput(input) ==
    LET type        == IF Attr(input, "type") = Undefined THEN Undefined
                       ELSE ToLowerCase(Attr(input, "type"))
        name        == LowerOrEmpty(Attr(input, "name"))
        id          == LowerOrEmpty(Attr(input, "id"))
        placeholder == LowerOrEmpty(Attr(input, "placeholder"))
        className   == LowerOrEmpty(Attr(input, "class"))
    IN  \/ type = "email"
        \/ /\ type = "text"
           /\ \/ Includes(name, "email") \/ Includes(name, "username") \/ Includes(name, "user")
              \/ Includes(id, "email") \/ Includes(id, "username") \/ Includes(id, "user")
              \/ Includes(placeholder, "email") \/ Includes(placeholder, "username")
              \/ Includes(className, "email") \/ Includes(className, "username")

\* $parent.find('input').filter(...).length > 0
HasEmailUsername(d, i) ==
    Len(SelectSeq(FindInputs(d, i), LAMBDA k : IsEmailUsernameInput(d.inputs[k]))) > 0

\* $parent.find('input[type="password"]').length > 0
HasPassword(d, i) ==
    Len(SelectSeq(FindInputs(d, i), LAMBDA k : Attr(d.inputs[k], "type") = "password")) > 0

\* $parent.find('input').not('input[type="hidden"]').length
VisibleInputCount(d, i) ==
    Len(SelectSeq(FindInputs(d, i), LAMBDA k : Attr(d.inputs[k], "type") # "hidden"))

isTraditionalAuth(d, i) == HasEmailUsername(d, i) /\ HasPassword(d, i)

isMultipartAuth(d, i) == HasEmailUsername(d, i) /\ ~HasPassword(d, i)

\* The condition under which an ancestor is scored.
Eligible(m, d, i) ==
    IF m = "permissive" THEN HasEmailUsername(d, i) /\ HasPassword(d, i)
    ELSE isTraditionalAuth(d, i) \/ isMultipartAuth(d, i)

\* The bonus of a traditional-auth ancestor (totalInputsInParent + 100).
TraditionalBonus == 100

\* const score = ...
Score(m, d, i) ==
    IF m = "permissive" THEN VisibleInputCount(d, i)
    ELSE IF isTraditionalAuth(d, i) THEN VisibleInputCount(d, i) + TraditionalBonus
         ELSE VisibleInputCount(d, i)

\* A comparison that keeps the first eligible ancestor.
Better_FirstOnly(score, best, bestScore) == best = 0

\* A comparison that lets an equal score replace the best ancestor.
Better_OrEqual(score, best, bestScore) == score >= bestScore \/ best = 0

\* score > bestParentScore || !bestParent
Better(score, best, bestScore) == score > bestScore \/ best = 0

\* tagName === 'body' || tagName === 'html' || tagName === 'head'
IsTopLevel(d, i) == TagName(d, i) \in {"body", "html", "head"}

\* A depth test that is off by one.
WalkContinues_OffByOne(d, p, dep) == p > 0 /\ dep <= maxDepth /\ ~IsTopLevel(d, p)

\* while ($parent.length > 0 && depth < maxDepth) { if (top level) break; ...
WalkContinues(d, p, dep) == p > 0 /\ dep < maxDepth /\ ~IsTopLevel(d, p)

\* A final parent without the fallback.
FinalParent_NoFallback(d, best, all) == best

\* bestParent || allAuthInputs[0].element.parent()
FinalParent(d, best, all) == IF best # 0 THEN best ELSE d.inputs[all[1].element].at

\* formElement taken from the nearest enclosing form instead of the container.
FormElementOf_ClosestForm(d, final, previous) ==
    LET forms == {j \in 1..final : d.spine[j].tag = "form"}
    IN  IF forms # {}
        THEN Or(OuterHTML(d, CHOOSE j \in forms : \A other \in forms : other <= j), Null)
        ELSE previous

\* if ($finalParent.is('form')) { authForm.formElement = outerHTML || null }
FormElementOf(d, final, previous) ==
    IF d.spine[final].tag = "form" THEN Or(OuterHTML(d, final), Null) ELSE previous

(***************************************************************************)
(* parseHtmlForAuthForms as a state machine                                *)
(***************************************************************************)

VARIABLES
    doc,              \* the parsed document
    mode,             \* which variant runs
    pc,               \* the position in parseHtmlForAuthForms
    authInputs,       \* the filtered inputs (indices into doc.inputs)
    processedInputs,  \* the selectors seen
    allAuthInputs,    \* the collected input details
    authForm,         \* the report under construction
    parent,           \* $parent of the walk (0: empty selection)
    bestParent,       \* bestParent (0: null)
    bestParentScore,
    depth,
    finalParent,      \* $finalParent (0: none)
    result,           \* the returned report, once pc = "done"
    examined          \* history: the ancestors the walk's loop body has run on

\* The state of the other parts of the program, which stand still while
\* parseHtmlForAuthForms runs.
VARIABLES
    reports,          \* history: the report each earlier run returned, by document
    runs,             \* the number of runs started
    request,          \* the request the POST handler received
    fpc,              \* the position in the POST handler
    attempt,          \* the index of the current entry of fetchAttempts
    response,         \* response (Null: null)
    lastError,        \* lastError (Null: null)
    upstream,         \* history: what the upstream site did at each attempt
    reply,            \* what the POST handler returned
    input,            \* the page's input state
    urls,             \* the page's urls state
    message,          \* the page's message state
    adds,             \* the number of entries ever added
    lastOp,           \* history: the handler of the page that ran last
    expandedCardId,   \* the page's expandedCardId state (Null: null)
    isHydrated,       \* the page's isHydrated state
    storage,          \* localStorage's 'getcovered-urls' item (Null: no item)
    pending,          \* the state updates queued for the next render
    effects,          \* the effects of the last commit that have not run yet
    listener,         \* the registered beforeunload handler and the urls it holds
    sessions,         \* the number of page loads
    markup,           \* the html argument of formatHtml
    parts,            \* parts, once the html is split
    partIndex,        \* the number of parts the loop has handled
    indentLevel,      \* indentLevel
    output,           \* formatHtml's result string
    emitted,          \* history: each tag handled, with the levels around it
    fmtpc             \* the position in formatHtml

parserVars == <<doc, mode, pc, authInputs, processedInputs, allAuthInputs, authForm,
                parent, bestParent, bestParentScore, depth, finalParent, result, examined>>

runVars == <<reports, runs>>

fetchVars == <<request, fpc, attempt, response, lastError, upstream, reply>>

pageVars == <<input, urls, message, adds, lastOp>>

mountVars == <<isHydrated, storage, pending, effects, listener, sessions>>

formatVars == <<markup, parts, partIndex, indentLevel, output, emitted, fmtpc>>

vars == <<parserVars, runVars, fetchVars, pageVars, expandedCardId, mountVars, formatVars>>

\* No run has been recorded.
RunsIdle == reports = <<>> /\ runs = 1

\* No request is being handled.
FetchIdle ==
    /\ request = Null
    /\ fpc = "idle"
    /\ attempt = 0
    /\ response = Null
    /\ lastError = Null
    /\ upstream = <<>>
    /\ reply = Null

\* The page as it is first rendered.
PageIdle ==
    /\ input = ""
    /\ urls = <<>>
    /\ message = [text |-> Undefined, error |-> Undefined]
    /\ adds = 0
    /\ expandedCardId = Null

\* No update is queued.
NoUpdates == [setUrls |-> FALSE, urls |-> <<>>, setIsHydrated |-> FALSE]

\* No beforeunload handler is registered.
NoListener == [registered |-> FALSE, urls |-> <<>>]

\* The page's effects and the browser's storage are left out of account.
MountIdle ==
    /\ isHydrated = FALSE
    /\ storage = Null
    /\ pending = NoUpdates
    /\ effects = <<>>
    /\ listener = NoListener
    /\ sessions = 0

\* formatHtml is not running.
FormatIdle ==
    /\ markup = ""
    /\ parts = <<>>
    /\ partIndex = 0
    /\ indentLevel = 0
    /\ output = ""
    /\ emitted = <<>>
    /\ fmtpc = "idle"

walkVars == <<parent, bestParent, bestParentScore, depth>>

\* The set of processed selectors is shared between calls instead of created by
\* each.
LocalsAtEntry_SharedSet(previous) ==
    [ authInputs       |-> <<>>,
      processedInputs  |-> previous.processedInputs,
      allAuthInputs    |-> <<>>,
      authForm         |-> EmptyReport,
      parent           |-> 0,
      bestParent       |-> 0,
      bestParentScore  |-> 0,
      depth            |-> 0,
      finalParent      |-> 0 ]

\* The locals of parseHtmlForAuthForms as a call creates them; previous holds
\* what the call before left in them.
LocalsAtEntry(previous) ==
    [ authInputs       |-> <<>>,
      processedInputs  |-> {},
      allAuthInputs    |-> <<>>,
      authForm         |-> EmptyReport,
      parent           |-> 0,
      bestParent       |-> 0,
      bestParentScore  |-> 0,
      depth            |-> 0,
      finalParent      |-> 0 ]

\* The locals as the state holds them.
Locals ==
    [ authInputs       |-> authInputs,
      processedInputs  |-> processedInputs,
      allAuthInputs    |-> allAuthInputs,
      authForm         |-> authForm,
      parent           |-> parent,
      bestParent       |-> bestParent,
      bestParentScore  |-> bestParentScore,
      depth            |-> depth,
      finalParent      |-> finalParent ]

\* The first call of parseHtmlForAuthForms is entered.
AtEntry ==
    /\ pc = "filter"
    /\ authInputs = <<>>
    /\ processedInputs = {}
    /\ allAuthInputs = <<>>
    /\ authForm = EmptyReport
    /\ parent = 0
    /\ bestParent = 0
    /\ bestParentScore = 0
    /\ depth = 0
    /\ finalParent = 0
    /\ result = EmptyReport
    /\ examined = {}

Init ==
    /\ IsDocument(doc)
    /\ mode \in Modes
    /\ AtEntry
    /\ RunsIdle
    /\ FetchIdle
    /\ PageIdle
    /\ MountIdle
    /\ FormatIdle
    /\ lastOp = "none"

\* The scan and the first negative return.
FilterInputs ==
    /\ UNCHANGED <<runVars, fetchVars, pageVars, expandedCardId, mountVars, formatVars>>
    /\ pc = "filter"
    /\ LET filtered == FilterAuthInputs(mode, doc)
           negative == IF mode = "permissive" THEN ~(Len(filtered) > 0)
                       ELSE ~(Len(SelectPasswordInputs(doc)) > 0) /\ ~(Len(filtered) > 0)
       IN  /\ authInputs' = filtered
           /\ IF negative
              THEN /\ result' = EmptyReport
                   /\ pc' = "done"
                   /\ UNCHANGED authForm
              ELSE /\ authForm' = NewAuthForm
                   /\ pc' = "collect"
                   /\ UNCHANGED result
    /\ UNCHANGED <<examined, doc, mode, processedInputs, allAuthInputs, walkVars, finalParent>>

\* authInputs.each: the selector-keyed collection of the candidates.
CollectInputs ==
    /\ UNCHANGED <<runVars, fetchVars, pageVars, expandedCardId, mountVars, formatVars>>
    /\ pc = "collect"
    /\ LET collected == CollectFrom(doc, authInputs, 0,
                            [processedInputs |-> processedInputs,
                             allAuthInputs |-> allAuthInputs])
       IN  /\ processedInputs' = collected.processedInputs
           /\ allAuthInputs' = collected.allAuthInputs
    /\ pc' = "categorise"
    /\ UNCHANGED <<examined, doc, mode, authInputs, authForm, walkVars, finalParent, result>>

\* allAuthInputs.forEach: password inputs and other inputs.
CategoriseInputs ==
    /\ UNCHANGED <<runVars, fetchVars, pageVars, expandedCardId, mountVars, formatVars>>
    /\ pc = "categorise"
    /\ authForm' = [authForm EXCEPT
                       !.passwordInputs = CategorisedPasswordInputs(doc, allAuthInputs),
                       !.otherInputs = CategorisedOtherInputs(doc, allAuthInputs)]
    /\ pc' = "locate"
    /\ UNCHANGED <<examined, doc, mode, authInputs, processedInputs, allAuthInputs, walkVars,
                   finalParent, result>>

\* if (allAuthInputs.length > 0) { let $parent = $firstAuthInput.parent(); ...
StartWalk ==
    /\ UNCHANGED <<runVars, fetchVars, pageVars, expandedCardId, mountVars, formatVars>>
    /\ pc = "locate"
    /\ IF Len(allAuthInputs) > 0
       THEN /\ parent' = doc.inputs[allAuthInputs[1].element].at
            /\ pc' = "walk"
       ELSE /\ parent' = parent
            /\ pc' = "dedup"
    /\ bestParent' = 0
    /\ bestParentScore' = 0
    /\ depth' = 0
    /\ UNCHANGED <<examined, doc, mode, authInputs, processedInputs, allAuthInputs, authForm,
                   finalParent, result>>

\* One iteration of the ancestor walk.
WalkStep ==
    /\ UNCHANGED <<runVars, fetchVars, pageVars, expandedCardId, mountVars, formatVars>>
    /\ pc = "walk"
    /\ WalkContinues(doc, parent, depth)
    /\ IF Eligible(mode, doc, parent)
          /\ Better(Score(mode, doc, parent), bestParent, bestParentScore)
       THEN /\ bestParent' = parent
            /\ bestParentScore' = Score(mode, doc, parent)
       ELSE UNCHANGED <<bestParent, bestParentScore>>
    /\ parent' = ParentOf(parent)
    /\ examined' = examined \cup {parent}
    /\ depth' = depth + 1
    /\ UNCHANGED <<doc, mode, pc, authInputs, processedInputs, allAuthInputs, authForm,
                   finalParent, result>>

\* The end of the walk: the final parent and the fields derived from it.
FinishWalk ==
    /\ UNCHANGED <<runVars, fetchVars, pageVars, expandedCardId, mountVars, formatVars>>
    /\ pc = "walk"
    /\ ~WalkContinues(doc, parent, depth)
    /\ LET final == FinalParent(doc, bestParent, allAuthInputs)
       IN  /\ finalParent' = final
           /\ authForm' =
                IF final > 0
                THEN [authForm EXCEPT
                         !.parentElement = Or(OuterHTML(doc, final), Null),
                         !.inputCount = VisibleInputCount(doc, final),
                         !.formElement = FormElementOf(doc, final, @)]
                ELSE authForm
    /\ pc' = "dedup"
    /\ UNCHANGED <<examined, doc, mode, authInputs, processedInputs, allAuthInputs, walkVars, result>>

\* The final deduplication; the permissive variant returns after it.
FinalDeduplication ==
    /\ UNCHANGED <<runVars, fetchVars, pageVars, expandedCardId, mountVars, formatVars>>
    /\ pc = "dedup"
    /\ LET form == [authForm EXCEPT
                       !.passwordInputs = UniqueInputs(authForm.passwordInputs),
                       !.otherInputs = UniqueInputs(authForm.otherInputs)]
       IN  /\ authForm' = form
           /\ IF mode = "permissive"
              THEN /\ result' = form
                   /\ pc' = "done"
              ELSE /\ pc' = "validate"
                   /\ UNCHANGED result
    /\ UNCHANGED <<examined, doc, mode, authInputs, processedInputs, allAuthInputs, walkVars,
                   finalParent>>

\* The final validation of the strict variant, and its return.
FinalValidation ==
    /\ UNCHANGED <<runVars, fetchVars, pageVars, expandedCardId, mountVars, formatVars>>
    /\ pc = "validate"
    /\ result' = FinalValidationResult(authForm)
    /\ pc' = "done"
    /\ UNCHANGED <<examined, doc, mode, authInputs, processedInputs, allAuthInputs, authForm,
                   walkVars, finalParent>>

Next ==
    \/ FilterInputs
    \/ CollectInputs
    \/ CategoriseInputs
    \/ StartWalk
    \/ WalkStep
    \/ FinishWalk
    \/ FinalDeduplication
    \/ FinalValidation

Spec == Init /\ [][Next]_vars

(***************************************************************************)
(* Several calls of parseHtmlForAuthForms, one after the other             *)
(***************************************************************************)

\* The number of calls in a behaviour.
MaxRuns == 3

\* The inputs of the documents parsed again and again.
RunPalette ==
    { [type |-> "password"],
      [type |-> "email", name |-> "e"] }

\* body > form; the inputs in the form.
IsRunDocument(d) ==
    \E n \in 0..MaxInputs :
        \E ins \in PlacedInputs(n, RunPalette, {3}) :
            d = [spine |-> Top(NoContext)
                              \o <<Element("form", [text |-> "Sign in", button |-> "Log in"])>>,
                 inputs |-> ins]

RunsInit ==
    /\ IsRunDocument(doc)
    /\ mode \in Modes
    /\ AtEntry
    /\ RunsIdle
    /\ FetchIdle
    /\ PageIdle
    /\ MountIdle
    /\ FormatIdle
    /\ lastOp = "none"

\* The caller keeps the report returned and calls parseHtmlForAuthForms again,
\* on any document.
Call ==
    /\ pc = "done"
    /\ runs < MaxRuns
    /\ reports' = Append(reports, [doc |-> doc, report |-> result])
    /\ runs' = runs + 1
    /\ IsRunDocument(doc')
    /\ LET fresh == LocalsAtEntry(Locals)
       IN  /\ authInputs' = fresh.authInputs
           /\ processedInputs' = fresh.processedInputs
           /\ allAuthInputs' = fresh.allAuthInputs
           /\ authForm' = fresh.authForm
           /\ parent' = fresh.parent
           /\ bestParent' = fresh.bestParent
           /\ bestParentScore' = fresh.bestParentScore
           /\ depth' = fresh.depth
           /\ finalParent' = fresh.finalParent
    /\ pc' = "filter"
    /\ result' = EmptyReport
    /\ examined' = {}
    /\ UNCHANGED <<mode, fetchVars, pageVars, expandedCardId, mountVars, formatVars>>

RunsNext ==
    \/ FilterInputs
    \/ CollectInputs
    \/ CategoriseInputs
    \/ StartWalk
    \/ WalkStep
    \/ FinishWalk
    \/ FinalDeduplication
    \/ FinalValidation
    \/ Call

SpecRuns == RunsInit /\ [][RunsNext]_vars

(***************************************************************************)
(* The POST handler of /api/fetch-html                                     *)
(***************************************************************************)

\* createCorsResponse(data, status = 200): NextResponse.json(data, {status, headers})
createCorsResponse(data, status) == [json |-> data, status |-> status]

\* The status createCorsResponse uses when none is given.
DefaultStatus == 200

\* The entries of fetchAttempts, by their header sets.
fetchAttempts == <<"full browser headers", "minimal headers", "different user agent">>

\* The requests: a body that is not JSON, and JSON bodies with or without a url.
Requests ==
    { [parseable |-> FALSE, url |-> Undefined],
      [parseable |-> TRUE, url |-> Undefined],
      [parseable |-> TRUE, url |-> ""],
      [parseable |-> TRUE, url |-> "not a url"],
      [parseable |-> TRUE, url |-> "https://a.test/login"] }

\* new URL(url) of the handler's requests: a scheme, "://" and a host.
ParsesAsURL(url) ==
    \E scheme \in {"http://", "https://"} :
        Len(url) > Len(scheme) /\ SubSeq(url, 1, Len(scheme)) = scheme

\* The errors fetch() and response.text() throw.
FetchErrors ==
    { [name |-> "TypeError", message |-> "fetch failed"],
      [name |-> "TimeoutError", message |-> "The operation was aborted due to timeout"],
      [name |-> "AbortError", message |-> "This operation was aborted"] }

\* null, where the handler holds an Error or null.
NoError == [name |-> Undefined, message |-> Undefined]

\* null, where the handler holds a Response or null.
NoResponse == [kind |-> "null"]

\* Nothing returned yet.
NoReply == [status |-> 0]

\* What the upstream site does at one attempt: fetch() throws, or it resolves
\* to a response whose body can be read (readError = Null) or not.
Thrown == {[kind |-> "throw", error |-> e] : e \in FetchErrors}

OkResponses ==
    { [kind |-> "response", ok |-> TRUE, status |-> 200, statusText |-> "OK",
       body |-> "<html><body>Sign in</body></html>", contentType |-> c, readError |-> r] :
        c \in {"text/html; charset=utf-8", "text/plain", "application/json", Null},
        r \in {NoError} \cup FetchErrors }

NonOkResponses ==
    { [kind |-> "response", ok |-> FALSE, status |-> st.status, statusText |-> st.text,
       body |-> b, contentType |-> "text/html", readError |-> r] :
        st \in {[status |-> 403, text |-> "Forbidden"],
                 [status |-> 503, text |-> "Service Unavailable"]},
        b \in {"<p>Forbidden</p>", "<div class=\"incompatible-browser\"></div>",
                "please use a modern browser"},
        r \in {NoError, [name |-> "TypeError", message |-> "fetch failed"]} }

UpstreamOutcomes == Thrown \cup OkResponses \cup NonOkResponses

\* Every non-ok response asks for another attempt.
HasBrowserMarker_Always(responseText) == TRUE

\* responseText.includes(...) of the three incompatible-browser markers.
HasBrowserMarker(responseText) ==
    \/ Includes(responseText, "incompatible-browser")
    \/ Includes(responseText, "browser not supported")
    \/ Includes(responseText, "please use a modern browser")

\* Any text content type passes.
ContentTypeIsHtml_AnyText(contentType) == Includes(contentType, "text/")

\* contentType.includes('text/html')
ContentTypeIsHtml(contentType) == Includes(contentType, "text/html")

\* The statements of POST that throw, and the catch clause that covers each:
\* the try around one attempt, the try around the whole body, or none.
CatchOf_NoOuterTry(statement) ==
    IF statement \in {"fetch", "marker text"} THEN "attempt catch" ELSE "none"

CatchOf(statement) ==
    IF statement \in {"fetch", "marker text"} THEN "attempt catch" ELSE "outer catch"

\* The reply of the outer catch clause to the error caught.
OuterCatchReply(error) ==
    IF error.isError
    THEN IF error.name = "AbortError"
         THEN createCorsResponse(
                  [error |-> "Request timeout - URL took too long to respond"], 408)
         ELSE createCorsResponse(
                  [error |-> "Failed to fetch URL: " \o error.message], 500)
    ELSE createCorsResponse([error |-> "An unexpected error occurred"], 500)

\* An error of FetchErrors, or a SyntaxError, as a thrown Error object.
AsError(e) == [isError |-> TRUE, name |-> e.name, message |-> e.message]

\* A statement throws: control passes to the catch clause that covers it, which
\* for the outer one replies and returns; without one the exception leaves POST.
\* Gives the next fpc and reply; the attempt catch is handled by the loop.
ThrowTo(statement, e) ==
    IF CatchOf(statement) = "outer catch"
    THEN [fpc |-> "done", reply |-> OuterCatchReply(AsError(e))]
    ELSE [fpc |-> "escaped", reply |-> NoReply]

FetchInit ==
    /\ request \in Requests
    /\ fpc = "request"
    /\ attempt = 0
    /\ response = NoResponse
    /\ lastError = NoError
    /\ upstream = <<>>
    /\ reply = NoReply
    /\ doc = [spine |-> <<>>, inputs |-> <<>>]
    /\ mode = "strict"
    /\ pc = "idle"
    /\ authInputs = <<>>
    /\ processedInputs = {}
    /\ allAuthInputs = <<>>
    /\ authForm = EmptyReport
    /\ parent = 0
    /\ bestParent = 0
    /\ bestParentScore = 0
    /\ depth = 0
    /\ finalParent = 0
    /\ result = EmptyReport
    /\ examined = {}
    /\ RunsIdle
    /\ PageIdle
    /\ MountIdle
    /\ FormatIdle
    /\ lastOp = "none"

\* const { url } = await request.json(); the url checks.
ReadRequest ==
    /\ fpc = "request"
    /\ IF ~request.parseable
       THEN LET to == ThrowTo("request.json",
                              [name |-> "SyntaxError", message |-> "Unexpected token"])
            IN  fpc' = to.fpc /\ reply' = to.reply /\ attempt' = attempt
       ELSE IF ~Truthy(request.url)
       THEN /\ reply' = createCorsResponse([error |-> "URL is required"], 400)
            /\ fpc' = "done"
            /\ attempt' = attempt
       ELSE IF ~ParsesAsURL(request.url)
       THEN /\ reply' = createCorsResponse([error |-> "Invalid URL format"], 400)
            /\ fpc' = "done"
            /\ attempt' = attempt
       ELSE /\ fpc' = "loop"
            /\ attempt' = 1
            /\ reply' = reply
    /\ UNCHANGED <<request, response, lastError, upstream>>
    /\ UNCHANGED <<parserVars, runVars, pageVars, expandedCardId, mountVars, formatVars>>

\* One iteration of for (const attempt of fetchAttempts).
Attempt ==
    /\ fpc = "loop"
    /\ attempt <= Len(fetchAttempts)
    /\ \E outcome \in UpstreamOutcomes :
        /\ upstream' = Append(upstream, [headers |-> fetchAttempts[attempt],
                                          outcome |-> outcome])
        /\ IF outcome.kind = "throw"
           THEN \* catch (error) { lastError = error; response = null; continue }
                /\ lastError' = outcome.error
                /\ response' = NoResponse
                /\ attempt' = attempt + 1
                /\ fpc' = "loop"
           ELSE IF outcome.ok
           THEN \* break
                /\ response' = outcome
                /\ fpc' = "after"
                /\ UNCHANGED <<lastError, attempt>>
           ELSE IF outcome.readError # NoError
           THEN \* await response.text() throws inside the attempt's try
                /\ lastError' = outcome.readError
                /\ response' = NoResponse
                /\ attempt' = attempt + 1
                /\ fpc' = "loop"
           ELSE IF HasBrowserMarker(outcome.body)
           THEN \* response = null; continue
                /\ response' = NoResponse
                /\ attempt' = attempt + 1
                /\ fpc' = "loop"
                /\ UNCHANGED lastError
           ELSE \* break
                /\ response' = outcome
                /\ fpc' = "after"
                /\ UNCHANGED <<lastError, attempt>>
    /\ UNCHANGED <<request, reply>>
    /\ UNCHANGED <<parserVars, runVars, pageVars, expandedCardId, mountVars, formatVars>>

\* fetchAttempts is exhausted.
EndLoop ==
    /\ fpc = "loop"
    /\ attempt > Len(fetchAttempts)
    /\ fpc' = "after"
    /\ UNCHANGED <<request, attempt, response, lastError, upstream, reply>>
    /\ UNCHANGED <<parserVars, runVars, pageVars, expandedCardId, mountVars, formatVars>>

\* The statements after the loop, down to the return.
Respond ==
    /\ fpc = "after"
    /\ IF response = NoResponse
       THEN /\ reply' = createCorsResponse(
                    [error |-> "Failed to fetch URL: "
                                 \o Or(lastError.message, "All fetch attempts failed")],
                    500)
            /\ fpc' = "done"
       ELSE IF ~response.ok
       THEN /\ reply' = createCorsResponse(
                    [error |-> "Failed to fetch URL: " \o NumberToString(response.status)
                                 \o " " \o response.statusText,
                     status |-> response.status],
                    response.status)
            /\ fpc' = "done"
       ELSE IF response.readError # NoError
       THEN \* const html = await response.text() throws
            LET to == ThrowTo("html text", response.readError)
            IN  fpc' = to.fpc /\ reply' = to.reply
       ELSE LET html        == response.body
                contentType == Or(response.contentType, "")
            IN  /\ reply' =
                     IF ~ContentTypeIsHtml(contentType)
                     THEN createCorsResponse(
                              [error |-> "URL does not return HTML content",
                               contentType |-> contentType],
                              400)
                     ELSE createCorsResponse(
                              [html |-> html,
                               url |-> request.url,
                               status |-> response.status,
                               contentType |-> contentType,
                               contentLength |-> Len(html)],
                              DefaultStatus)
                /\ fpc' = "done"
    /\ UNCHANGED <<request, attempt, response, lastError, upstream>>
    /\ UNCHANGED <<parserVars, runVars, pageVars, expandedCardId, mountVars, formatVars>>

FetchNext ==
    \/ ReadRequest
    \/ Attempt
    \/ EndLoop
    \/ Respond

\* POST runs to its end once called: nothing suspends it but its own awaits.
SpecFetch == FetchInit /\ [][FetchNext]_vars /\ WF_vars(FetchNext)

(***************************************************************************)
(* The page: the URL list of Home                                          *)
(***************************************************************************)

\* The number of entries a behaviour adds to the list.
MaxAdds == 6

\* The limit of if (urls.length >= 5).
UrlLimit == 5

\* The sites the user submits, named in the order they are first typed.
SiteName(j) == "site" \o NumberToString(j) \o ".co"

\* The ways the user spells site j: the first with white space around it or with
\* its protocol, the second with the http protocol, the others bare.
Spellings(j) ==
    IF j = 1 THEN {" " \o SiteName(j) \o " ", "https://" \o SiteName(j)}
    ELSE IF j = 2 THEN {"http://" \o SiteName(j)}
    ELSE {SiteName(j)}

\* What the user types into the field once count entries have been added: blanks,
\* something that is no URL, a site typed before or the next new one.
Inputs(count) ==
    {"  ", "not a url"} \cup UNION {Spellings(j) : j \in 1..(count + 1)}

RECURSIVE TrimStart(_)
TrimStart(str) ==
    IF Len(str) > 0 /\ SubSeq(str, 1, 1) = " "
    THEN TrimStart(SubSeq(str, 2, Len(str)))
    ELSE str

RECURSIVE TrimEnd(_)
TrimEnd(str) ==
    IF Len(str) > 0 /\ SubSeq(str, Len(str), Len(str)) = " "
    THEN TrimEnd(SubSeq(str, 1, Len(str) - 1))
    ELSE str

\* String.prototype.trim, on strings whose white space is the space.
Trim(str) == TrimEnd(TrimStart(str))

\* String.prototype.startsWith
StartsWith(str, prefix) ==
    Len(str) >= Len(prefix) /\ SubSeq(str, 1, Len(prefix)) = prefix

\* let normalizedUrl = input.trim(); https:// is added when no protocol is given.
NormalizeUrl(value) ==
    LET normalizedUrl == Trim(value)
    IN  IF ~StartsWith(normalizedUrl, "http://") /\ ~StartsWith(normalizedUrl, "https://")
        THEN "https://" \o normalizedUrl
        ELSE normalizedUrl

\* validator.isURL(normalizedUrl, {protocols: ['http', 'https'], require_protocol,
\* require_valid_protocol}), on the strings of the model: a protocol, then a host
\* with a dot and no space.
IsURL(url) ==
    \E protocol \in {"http://", "https://"} :
        /\ StartsWith(url, protocol)
        /\ LET host == SubSeq(url, Len(protocol) + 1, Len(url))
           IN  Includes(host, ".") /\ ~Includes(host, " ") /\ ~Includes(host, "/")

\* The duplicate check looks at the last entry only.
AlreadyAdded_LastOnly(list, normalizedUrl) ==
    Len(list) > 0 /\ list[Len(list)].url = normalizedUrl

\* urls.some(item => item.url === normalizedUrl)
AlreadyAdded(list, normalizedUrl) ==
    \E i \in 1..Len(list) : list[i].url = normalizedUrl

\* The limit check lets a sixth entry in.
LimitReached_OffByOne(list) == Len(list) > UrlLimit

\* urls.length >= 5
LimitReached(list) == Len(list) >= UrlLimit

\* `url-${Date.now()}-${Math.random()...}`: an id no earlier entry was given.
NewId(count) == "url-" \o NumberToString(count + 1)

PageInit ==
    /\ PageIdle
    /\ MountIdle
    /\ FormatIdle
    /\ lastOp = "render"
    /\ request = Null
    /\ fpc = "idle"
    /\ attempt = 0
    /\ response = Null
    /\ lastError = Null
    /\ upstream = <<>>
    /\ reply = Null
    /\ doc = [spine |-> <<>>, inputs |-> <<>>]
    /\ mode = "strict"
    /\ pc = "idle"
    /\ authInputs = <<>>
    /\ processedInputs = {}
    /\ allAuthInputs = <<>>
    /\ authForm = EmptyReport
    /\ parent = 0
    /\ bestParent = 0
    /\ bestParentScore = 0
    /\ depth = 0
    /\ finalParent = 0
    /\ result = EmptyReport
    /\ examined = {}
    /\ RunsIdle

\* handleInputChange: the field's value and the feedback while typing.
HandleInputChange ==
    /\ \E value \in Inputs(adds) :
        /\ input' = value
        /\ LET cleared == IF Truthy(message.text)
                          THEN [text |-> "", error |-> FALSE]
                          ELSE message
               normalizedUrl == NormalizeUrl(value)
           IN  message' =
                   IF Truthy(Trim(value))
                   THEN IF IsURL(normalizedUrl)
                        THEN IF AlreadyAdded(urls, normalizedUrl)
                             THEN [text |-> "This URL has already been added.",
                                   error |-> TRUE]
                             ELSE cleared
                        ELSE [text |-> "Invalid URL format", error |-> TRUE]
                   ELSE cleared
    /\ lastOp' = "change"
    /\ UNCHANGED <<urls, adds, expandedCardId>>
    /\ UNCHANGED <<parserVars, runVars, fetchVars, mountVars, formatVars>>

\* handleSubmit
HandleSubmit ==
    /\ LET normalizedUrl == NormalizeUrl(input)
       IN  IF ~Truthy(Trim(input))
           THEN /\ message' = [text |-> "Please enter a URL.", error |-> TRUE]
                /\ UNCHANGED <<input, urls, adds>>
           ELSE IF ~IsURL(normalizedUrl)
           THEN /\ message' = [text |-> "Please enter a valid URL.", error |-> TRUE]
                /\ UNCHANGED <<input, urls, adds>>
           ELSE IF AlreadyAdded(urls, normalizedUrl)
           THEN /\ message' = [text |-> "This URL has already been added.", error |-> TRUE]
                /\ UNCHANGED <<input, urls, adds>>
           ELSE IF LimitReached(urls)
           THEN /\ message' = [text |-> "5 URLs limit reached.", error |-> TRUE]
                /\ UNCHANGED <<input, urls, adds>>
           ELSE /\ adds < MaxAdds
                /\ urls' = Append(urls, [id |-> NewId(adds), url |-> normalizedUrl])
                /\ input' = ""
                /\ adds' = adds + 1
                /\ UNCHANGED message
    /\ lastOp' = "submit"
    /\ UNCHANGED expandedCardId
    /\ UNCHANGED <<parserVars, runVars, fetchVars, mountVars, formatVars>>

\* The removal leaves the expanded state as it is.
ExpandedAfterRemove_Kept(expanded, id) == expanded

\* if (expandedCardId === id) setExpandedCardId(null)
ExpandedAfterRemove(expanded, id) == IF expanded = id THEN Null ELSE expanded

\* The click always expands the card.
ExpandedAfterToggle_AlwaysExpand(expanded, cardId) == cardId

\* handleCardToggle's new expandedCardId
ExpandedAfterToggle(expanded, cardId) == IF expanded = cardId THEN Null ELSE cardId

\* removeUrl(id), for the id of a card on the page.
RemoveUrl ==
    /\ \E i \in 1..Len(urls) :
        /\ urls' = SelectSeq(urls, LAMBDA item : item.id # urls[i].id)
        /\ expandedCardId' = ExpandedAfterRemove(expandedCardId, urls[i].id)
    /\ lastOp' = "remove"
    /\ UNCHANGED <<input, message, adds>>
    /\ UNCHANGED <<parserVars, runVars, fetchVars, mountVars, formatVars>>

PageNext ==
    \/ HandleInputChange
    \/ HandleSubmit
    \/ RemoveUrl

SpecPage == PageInit /\ [][PageNext]_vars

(***************************************************************************)
(* The page: the cards of the URL list                                     *)
(***************************************************************************)

\* The number of entries a behaviour with card clicks adds to the list.
MaxCards == 3

\* handleCardToggle(cardId), for the id of a card on the page: a card is
\* rendered for each entry of urls, with onToggle bound to the entry's id.
HandleCardToggle ==
    /\ \E i \in 1..Len(urls) :
        expandedCardId' = ExpandedAfterToggle(expandedCardId, urls[i].id)
    /\ lastOp' = "toggle"
    /\ UNCHANGED <<input, urls, message, adds>>
    /\ UNCHANGED <<parserVars, runVars, fetchVars, mountVars, formatVars>>

\* handleSubmit, while the behaviour has entries left to add.
SubmitCard == HandleSubmit /\ adds' <= MaxCards

CardsNext ==
    \/ HandleInputChange
    \/ SubmitCard
    \/ RemoveUrl
    \/ HandleCardToggle

SpecCards == PageInit /\ [][CardsNext]_vars

(***************************************************************************)
(* The page: its effects and localStorage                                  *)
(*                                                                         *)
(* React runs the effects of a commit in the order of their declaration,   *)
(* in one task; a state update made by an effect or a handler is queued    *)
(* and takes effect at the next render, whose own effects run after it.    *)
(* Browser events (a click, beforeunload, a page load) come between tasks. *)
(***************************************************************************)

\* The number of entries a behaviour with page loads adds to the list.
MaxStored == 2

\* The number of page loads of a behaviour.
MaxSessions == 3

\* The entry handleSubmit makes for the site typed after count entries were added.
NewUrlItem(count) ==
    [id |-> NewId(count), url |-> NormalizeUrl(SiteName(count + 1))]

\* JSON.stringify of an entry: {"id":"...","url":"..."}
StringifyItem(item) ==
    "{\"id\":\"" \o item.id \o "\",\"url\":\"" \o item.url \o "\"}"

\* JSON.stringify(urls)
JSONStringify(list) ==
    "[" \o Join([i \in 1..Len(list) |-> StringifyItem(list[i])], ",") \o "]"

\* The lists of entries the page can hold: entries in the order they were added.
StorableLists ==
    LET n == MaxStored + 1
    IN  {SelectSeq([j \in 1..n |-> NewUrlItem(j - 1)],
                   LAMBDA item : item \in kept) :
             kept \in SUBSET {NewUrlItem(j - 1) : j \in 1..n}}

\* JSON.parse(saved), for a text JSON.stringify produced: the list it denotes.
JSONParse(text) == CHOOSE list \in StorableLists : JSONStringify(list) = text

\* The effects of the first commit, in the order of their declaration.
MountEffects == <<"load", "save", "unload">>

\* The effects a re-render schedules: those with a dependency that changed.
\* setUrls always passes a new array; isHydrated changes from false to true.
EffectsAfter(update, hydrated) ==
    (IF update.setUrls \/ (update.setIsHydrated /\ ~hydrated) THEN <<"save">> ELSE <<>>)
        \o (IF update.setUrls THEN <<"unload">> ELSE <<>>)

\* if (isHydrated && typeof window !== 'undefined')
SaveEffectWrites(hydrated) == hydrated

MountInit ==
    /\ PageIdle
    /\ lastOp = "render"
    /\ isHydrated = FALSE
    /\ storage = Null
    /\ pending = NoUpdates
    /\ effects = MountEffects
    /\ listener = NoListener
    /\ sessions = 1
    /\ FormatIdle
    /\ request = Null
    /\ fpc = "idle"
    /\ attempt = 0
    /\ response = Null
    /\ lastError = Null
    /\ upstream = <<>>
    /\ reply = Null
    /\ doc = [spine |-> <<>>, inputs |-> <<>>]
    /\ mode = "strict"
    /\ pc = "idle"
    /\ authInputs = <<>>
    /\ processedInputs = {}
    /\ allAuthInputs = <<>>
    /\ authForm = EmptyReport
    /\ parent = 0
    /\ bestParent = 0
    /\ bestParentScore = 0
    /\ depth = 0
    /\ finalParent = 0
    /\ result = EmptyReport
    /\ examined = {}
    /\ RunsIdle

\* The first effect: load the stored list, then mark the page hydrated.
LoadEffect ==
    /\ effects # <<>> /\ Head(effects) = "load"
    /\ LET saved == storage
       IN  pending' = IF saved # Null /\ Truthy(saved)
                      THEN [setUrls |-> TRUE, urls |-> JSONParse(saved),
                            setIsHydrated |-> TRUE]
                      ELSE [pending EXCEPT !.setIsHydrated = TRUE]
    /\ effects' = Tail(effects)
    /\ UNCHANGED <<isHydrated, storage, listener, sessions>>
    /\ UNCHANGED <<parserVars, runVars, fetchVars, pageVars, expandedCardId, formatVars>>

\* The second effect: save the list, once hydrated.
SaveEffect ==
    /\ effects # <<>> /\ Head(effects) = "save"
    /\ storage' = IF SaveEffectWrites(isHydrated) THEN JSONStringify(urls) ELSE storage
    /\ effects' = Tail(effects)
    /\ UNCHANGED <<isHydrated, pending, listener, sessions>>
    /\ UNCHANGED <<parserVars, runVars, fetchVars, pageVars, expandedCardId, formatVars>>

\* The third effect: the previous run's cleanup removes its handler, then
\* handleBeforeUnload of this render is registered; it holds this render's urls.
UnloadEffect ==
    /\ effects # <<>> /\ Head(effects) = "unload"
    /\ listener' = [registered |-> TRUE, urls |-> urls]
    /\ effects' = Tail(effects)
    /\ UNCHANGED <<isHydrated, storage, pending, sessions>>
    /\ UNCHANGED <<parserVars, runVars, fetchVars, pageVars, expandedCardId, formatVars>>

\* A re-render: the queued updates become the state, and the effects whose
\* dependencies changed are scheduled.
Render ==
    /\ effects = <<>>
    /\ pending # NoUpdates
    /\ urls' = IF pending.setUrls THEN pending.urls ELSE urls
    /\ isHydrated' = (isHydrated \/ pending.setIsHydrated)
    /\ effects' = EffectsAfter(pending, isHydrated)
    /\ pending' = NoUpdates
    /\ UNCHANGED <<storage, listener, sessions>>
    /\ UNCHANGED <<input, message, adds, lastOp, expandedCardId>>
    /\ UNCHANGED <<parserVars, runVars, fetchVars, formatVars>>

\* setUrls([...urls, newUrlItem]) of handleSubmit and setUrls(urls.filter(...))
\* of removeUrl, called by a handler of the rendered page.
SetUrls ==
    /\ effects = <<>>
    /\ \/ /\ adds < MaxStored
          /\ ~LimitReached(urls)
          /\ pending' = [pending EXCEPT !.setUrls = TRUE,
                                        !.urls = Append(urls, NewUrlItem(adds))]
          /\ adds' = adds + 1
       \/ /\ \E i \in 1..Len(urls) :
                 pending' = [pending EXCEPT
                                !.setUrls = TRUE,
                                !.urls = SelectSeq(urls, LAMBDA item : item.id # urls[i].id)]
          /\ UNCHANGED adds
    /\ UNCHANGED <<isHydrated, storage, effects, listener, sessions>>
    /\ UNCHANGED <<input, urls, message, lastOp, expandedCardId>>
    /\ UNCHANGED <<parserVars, runVars, fetchVars, formatVars>>

\* handleBeforeUnload: the registered handler stores the urls it holds.
BeforeUnload ==
    /\ effects = <<>>
    /\ listener.registered
    /\ storage' = JSONStringify(listener.urls)
    /\ UNCHANGED <<isHydrated, pending, effects, listener, sessions>>
    /\ UNCHANGED <<parserVars, runVars, fetchVars, pageVars, expandedCardId, formatVars>>

\* The page is loaded anew: the state is the initial one, the storage stays.
Reload ==
    /\ effects = <<>>
    /\ sessions < MaxSessions
    /\ sessions' = sessions + 1
    /\ urls' = <<>>
    /\ isHydrated' = FALSE
    /\ pending' = NoUpdates
    /\ effects' = MountEffects
    /\ listener' = NoListener
    /\ UNCHANGED storage
    /\ UNCHANGED <<input, message, adds, lastOp, expandedCardId>>
    /\ UNCHANGED <<parserVars, runVars, fetchVars, formatVars>>

MountNext ==
    \/ LoadEffect
    \/ SaveEffect
    \/ UnloadEffect
    \/ Render
    \/ SetUrls
    \/ BeforeUnload
    \/ Reload

SpecMount == MountInit /\ [][MountNext]_vars

(***************************************************************************)
(* formatHtml of ResponseCard                                              *)
(***************************************************************************)

\* The number of tags and texts an html argument is made of.
MaxTokens == 3

\* The tags and texts the html arguments are made of.
Tokens ==
    {"<div>", "</div>", "<colgroup>", "</colgroup>", "<col>", "<br/>", " a ", " "}

\* The html arguments: the empty string and the concatenations of tokens.
Markups ==
    {Join(tokens, "") : tokens \in UNION {[1..n -> Tokens] : n \in 0..MaxTokens}}

\* The white space of the strings of the model.
IsWhiteSpace(char) == char \in {" ", "\n"}

RECURSIVE TrimWhiteStart(_)
TrimWhiteStart(str) ==
    IF Len(str) > 0 /\ IsWhiteSpace(SubSeq(str, 1, 1))
    THEN TrimWhiteStart(SubSeq(str, 2, Len(str)))
    ELSE str

RECURSIVE TrimWhiteEnd(_)
TrimWhiteEnd(str) ==
    IF Len(str) > 0 /\ IsWhiteSpace(SubSeq(str, Len(str), Len(str)))
    THEN TrimWhiteEnd(SubSeq(str, 1, Len(str) - 1))
    ELSE str

\* String.prototype.trim, on strings with spaces and line feeds.
TrimWhite(str) == TrimWhiteEnd(TrimWhiteStart(str))

\* String.prototype.indexOf for one character, counted from 1; 0 when absent.
IndexOf(str, char) ==
    LET found == {i \in 1..Len(str) : SubSeq(str, i, i) = char}
    IN  IF found = {} THEN 0 ELSE CHOOSE i \in found : \A j \in found : i <= j

\* String.prototype.endsWith
EndsWith(str, suffix) ==
    /\ Len(str) >= Len(suffix)
    /\ SubSeq(str, Len(str) - Len(suffix) + 1, Len(str)) = suffix

RECURSIVE Repeat(_, _)
\* String.prototype.repeat
Repeat(str, count) == IF count = 0 THEN "" ELSE str \o Repeat(str, count - 1)

RECURSIVE RemoveSpaceBetweenTags(_)
\* html.replace(/>\s+</g, '><')
RemoveSpaceBetweenTags(str) ==
    IF Len(str) = 0 THEN ""
    ELSE LET rest  == SubSeq(str, 2, Len(str))
             after == TrimWhiteStart(rest)
         IN  IF /\ SubSeq(str, 1, 1) = ">"
                /\ after # rest
                /\ StartsWith(after, "<")
             THEN "><" \o RemoveSpaceBetweenTags(SubSeq(after, 2, Len(after)))
             ELSE SubSeq(str, 1, 1) \o RemoveSpaceBetweenTags(rest)

RECURSIVE SplitTags(_)
\* formatted.split(/(<[^>]*>)/): the texts and, between them, the tags.
SplitTags(str) ==
    LET open == IndexOf(str, "<")
        from == SubSeq(str, open, Len(str))
        size == IF open = 0 THEN 0 ELSE IndexOf(from, ">")
    IN  IF size = 0 THEN <<str>>
        ELSE <<SubSeq(str, 1, open - 1), SubSeq(from, 1, size)>>
                 \o SplitTags(SubSeq(from, size + 1, Len(from)))

\* The names of the pattern /<(area|base|br|...|wbr)/i.
VoidElements ==
    { "area", "base", "br", "col", "embed", "hr", "img", "input", "link",
      "meta", "param", "source", "track", "wbr" }

\* part.match(/<(area|base|br|...|wbr)/i): a < followed by one of the names,
\* anywhere in the part, in either case.
MatchesVoidPattern(part) ==
    \E i \in 1..Len(part) : \E name \in VoidElements :
        StartsWith(ToLowerCase(SubSeq(part, i, Len(part))), "<" \o name)

\* const indentSize = 2
indentSize == 2

\* ' '.repeat(indentLevel * indentSize)
Indent(level) == Repeat(" ", level * indentSize)

\* Math.max
Max(a, b) == IF a >= b THEN a ELSE b

FormatInit ==
    /\ markup \in Markups
    /\ fmtpc = "start"
    /\ parts = <<>>
    /\ partIndex = 0
    /\ indentLevel = 0
    /\ output = ""
    /\ emitted = <<>>
    /\ PageIdle
    /\ lastOp = "none"
    /\ MountIdle
    /\ request = Null
    /\ fpc = "idle"
    /\ attempt = 0
    /\ response = Null
    /\ lastError = Null
    /\ upstream = <<>>
    /\ reply = Null
    /\ doc = [spine |-> <<>>, inputs |-> <<>>]
    /\ mode = "strict"
    /\ pc = "idle"
    /\ authInputs = <<>>
    /\ processedInputs = {}
    /\ allAuthInputs = <<>>
    /\ authForm = EmptyReport
    /\ parent = 0
    /\ bestParent = 0
    /\ bestParentScore = 0
    /\ depth = 0
    /\ finalParent = 0
    /\ result = EmptyReport
    /\ examined = {}
    /\ RunsIdle

\* The statements before the loop: the early return, the normalisation and the
\* split.
FormatStart ==
    /\ fmtpc = "start"
    /\ IF ~Truthy(markup)
       THEN /\ output' = "No parent element found"
            /\ fmtpc' = "done"
            /\ UNCHANGED parts
       ELSE /\ parts' = SplitTags(TrimWhite(RemoveSpaceBetweenTags(markup)))
            /\ fmtpc' = "loop"
            /\ UNCHANGED output
    /\ UNCHANGED <<markup, partIndex, indentLevel, emitted>>
    /\ UNCHANGED <<parserVars, runVars, fetchVars, pageVars, expandedCardId, mountVars>>

\* One turn of for (let i = 0; i < parts.length; i++).
FormatPart ==
    /\ fmtpc = "loop"
    /\ partIndex < Len(parts)
    /\ partIndex' = partIndex + 1
    /\ LET part == parts[partIndex + 1]
       IN  IF StartsWith(part, "</")
           THEN LET level == Max(0, indentLevel - 1)
                IN  /\ indentLevel' = level
                    /\ output' = output \o Indent(level) \o part \o "\n"
                    /\ emitted' = Append(emitted, [part |-> part, before |-> indentLevel,
                                                   indent |-> level, after |-> level])
           ELSE IF StartsWith(part, "<") /\ ~StartsWith(part, "</")
           THEN /\ output' = output \o Indent(indentLevel) \o part \o "\n"
                /\ indentLevel' = IF EndsWith(part, "/>") \/ MatchesVoidPattern(part)
                                  THEN indentLevel
                                  ELSE indentLevel + 1
                /\ emitted' = Append(emitted, [part |-> part, before |-> indentLevel,
                                               indent |-> indentLevel,
                                               after |-> indentLevel'])
           ELSE IF Truthy(TrimWhite(part))
           THEN /\ output' = output \o Indent(indentLevel) \o TrimWhite(part) \o "\n"
                /\ UNCHANGED <<indentLevel, emitted>>
           ELSE UNCHANGED <<indentLevel, output, emitted>>
    /\ UNCHANGED <<markup, parts, fmtpc>>
    /\ UNCHANGED <<parserVars, runVars, fetchVars, pageVars, expandedCardId, mountVars>>

\* return result.trim()
FormatReturn ==
    /\ fmtpc = "loop"
    /\ partIndex = Len(parts)
    /\ output' = TrimWhite(output)
    /\ fmtpc' = "done"
    /\ UNCHANGED <<markup, parts, partIndex, indentLevel, emitted>>
    /\ UNCHANGED <<parserVars, runVars, fetchVars, pageVars, expandedCardId, mountVars>>

FormatNext ==
    \/ FormatStart
    \/ FormatPart
    \/ FormatReturn

SpecFormat == FormatInit /\ [][FormatNext]_vars

(***************************************************************************)
(* Properties of parseHtmlForAuthForms                                     *)
(***************************************************************************)

Returned == pc = "done"

\* The walk is over and the container is decided.
Located == pc \in {"dedup", "validate", "done"} /\ Len(allAuthInputs) > 0

\* The parent element of the first collected input.
FirstParent == doc.inputs[allAuthInputs[1].element].at

\* The (id, name, type) triple of input element k, as a descriptor holds it.
TripleOf(k) ==
    [ id   |-> Or(Attr(doc.inputs[k], "id"), Undefined),
      name |-> Or(Attr(doc.inputs[k], "name"), Undefined),
      type |-> Or(Attr(doc.inputs[k], "type"), Undefined) ]

NoTwoAlike(list) ==
    \A i, j \in 1..Len(list) : i # j => ~SameTriple(list[i], list[j])

\* The identity criteria of the acceptance gate, as the specification words them:
\* type email, or name, id or placeholder containing email, username or user.
MatchesIdentity(descriptor) ==
    \/ ToLowerCase(Or(descriptor.type, "")) = "email"
    \/ \E field \in {descriptor.name, descriptor.id, descriptor.placeholder} :
           SomeIncluded({"email", "username", "user"}, ToLowerCase(Or(field, "")))

\* An ancestor that holds an email/username-shaped input and a password input.
HoldsBoth(i) == HasEmailUsername(doc, i) /\ HasPassword(doc, i)

\* C1: every document with a password-typed input yields a positive report whose
\* passwordInputs holds a descriptor with that input's (id, name, type) triple.
C1_PasswordSupremacy ==
    Returned =>
        \A k \in 1..Len(doc.inputs) :
            Attr(doc.inputs[k], "type") = "password" =>
                /\ result.hasPasswordInput
                /\ \E i \in 1..Len(result.passwordInputs) :
                       SameTriple(result.passwordInputs[i], TripleOf(k))

\* C2: no descriptor of passwordInputs shares its (id, name, type) triple with a
\* descriptor of otherInputs.
C2_MutuallyExclusive ==
    Returned =>
        \A p \in 1..Len(result.passwordInputs), o \in 1..Len(result.otherInputs) :
            ~SameTriple(result.passwordInputs[p], result.otherInputs[o])

\* C3: every entry of passwordInputs has type "password" and is the descriptor of
\* an input element whose type attribute is "password".
C3_PasswordInputsArePasswordTyped ==
    Returned =>
        \A i \in 1..Len(result.passwordInputs) :
            /\ result.passwordInputs[i].type = "password"
            /\ \E k \in 1..Len(doc.inputs) :
                   /\ Attr(doc.inputs[k], "type") = "password"
                   /\ result.passwordInputs[i].selector = InputOuterHTML(doc.inputs[k])
                   /\ SameTriple(result.passwordInputs[i], TripleOf(k))

\* C3's case: a positive report for a document in which an input that is not
\* password-typed matched the password keyword and was collected, next to a
\* reported password input.
C3_Witness ==
    /\ Returned
    /\ Len(result.passwordInputs) > 0
    /\ \E n \in 1..Len(allAuthInputs) :
           /\ Attr(doc.inputs[allAuthInputs[n].element], "type") # "password"
           /\ Includes(Attributes(doc.inputs[allAuthInputs[n].element]), "password")

\* C4: a report with hasPasswordInput = false is the empty negative report.
C4_NegativeIsEmpty ==
    (Returned /\ ~result.hasPasswordInput) =>
        /\ result.formElement = Null
        /\ result.parentElement = Null
        /\ result.inputCount = 0
        /\ result.passwordInputs = <<>>
        /\ result.otherInputs = <<>>

\* C4's case: the final validation turns down a report whose container and input
\* list were already filled in.
C4_Witness ==
    /\ Returned
    /\ ~result.hasPasswordInput
    /\ authForm.parentElement # Null
    /\ authForm.inputCount > 0
    /\ Len(authForm.otherInputs) > 0

\* C5: neither passwordInputs nor otherInputs holds two descriptors with the same
\* (id, name, type) triple.
C5_NoDuplicateTriples ==
    Returned => NoTwoAlike(result.passwordInputs) /\ NoTwoAlike(result.otherInputs)

\* C5's case: two inputs without id and name, of the same type, were both
\* collected and the report holds one descriptor for them.
C5_Witness ==
    /\ Returned
    /\ Len(allAuthInputs) = 2
    /\ allAuthInputs[1].id = Undefined /\ allAuthInputs[1].name = Undefined
    /\ SameTriple(allAuthInputs[1], allAuthInputs[2])
    /\ Len(result.passwordInputs) = 1
    /\ Len(result.otherInputs) = 0

\* C6: every positive report has a password descriptor or an other-input
\* descriptor that matches the identity criteria, in both variants.
C6_PositivePassesGate ==
    (Returned /\ result.hasPasswordInput) =>
        \/ Len(result.passwordInputs) > 0
        \/ \E o \in 1..Len(result.otherInputs) : MatchesIdentity(result.otherInputs[o])

\* C7: when an examined ancestor holds both an email/username-shaped input and a
\* password input, the selected container is an examined ancestor that holds both.
C7_CompleteContainerPreferred ==
    (Located /\ \E i \in examined : HoldsBoth(i)) =>
        finalParent \in examined /\ HoldsBoth(finalParent)

\* C7's case: the walk met an ancestor with the email/username input only, then
\* one with both, and selected the latter.
C7_Witness ==
    /\ Returned
    /\ \E i, j \in examined :
           /\ HasEmailUsername(doc, i) /\ ~HasPassword(doc, i)
           /\ HoldsBoth(j)
           /\ finalParent = j
    /\ mode = "strict"

\* C8: the walk examines at most maxDepth ancestors, all of them fewer than
\* maxDepth levels above the first candidate's parent; the container is never
\* maxDepth or more levels above that parent; and when no examined ancestor
\* qualifies the container is the first candidate's parent.
C8_DepthCap ==
    Located =>
        /\ Cardinality(examined) <= maxDepth
        /\ \A i \in examined : i <= FirstParent /\ FirstParent - i < maxDepth
        /\ FirstParent - finalParent < maxDepth
        /\ (~\E i \in examined : Eligible(mode, doc, i)) => finalParent = FirstParent

\* C8's case: an ancestor maxDepth or more levels above the first candidate's
\* parent qualifies, the walk ran its maxDepth iterations without meeting a
\* qualifying ancestor, and the container is the immediate parent.
C8_Witness ==
    /\ Returned
    /\ Len(allAuthInputs) > 0
    /\ Cardinality(examined) = maxDepth
    /\ \E i \in 3..Len(doc.spine) :
           FirstParent - i >= maxDepth /\ Eligible(mode, doc, i)
    /\ finalParent = FirstParent

\* C9: every positive report has a parentElement.
C9_PositiveHasParent ==
    (Returned /\ result.hasPasswordInput) => result.parentElement # Null

\* C9's case: a positive report whose walk found no qualifying ancestor, so that
\* the container is the fallback.
C9_Witness ==
    /\ Returned
    /\ result.hasPasswordInput
    /\ bestParent = 0
    /\ result.parentElement = OuterHTML(doc, FirstParent)

\* C10: the element reported in parentElement is none of body, html and head.
C10_ContainerNotTopLevel ==
    (Returned /\ result.parentElement # Null) =>
        doc.spine[finalParent].tag \notin {"body", "html", "head"}

\* The chosen container is inside a form without being one.
InsideForm(i) == \E j \in 1..(i - 1) : doc.spine[j].tag = "form"

\* C11: in every report, formElement is non-null exactly when the chosen container
\* is a form element, and then it equals parentElement; a report without a
\* container has no formElement, and a container of another tag yields null even
\* inside a form.
C11_FormElementIffFormContainer ==
    Returned =>
        IF result.parentElement # Null
        THEN /\ (result.formElement # Null) <=> (doc.spine[finalParent].tag = "form")
             /\ result.formElement # Null => result.formElement = result.parentElement
        ELSE result.formElement = Null

\* C11's case: the chosen container is a div inside a form, and formElement is null.
C11_Witness ==
    /\ Returned
    /\ result.parentElement # Null
    /\ doc.spine[finalParent].tag = "div"
    /\ InsideForm(finalParent)
    /\ result.formElement = Null

\* Input k carries an auth keyword of the running variant in its attributes.
HasAuthKeyword(k) ==
    SomeIncluded(IF mode = "permissive" THEN authKeywords ELSE strongAuthKeywords,
                 Attributes(doc.inputs[k]))

\* Input k has auth context, as the running variant judges it, in its parent or
\* closest form.
HasAuthContext(k) ==
    IF mode = "permissive" THEN hasAuthenticationContextPermissive(doc, k)
    ELSE hasAuthenticationContextStrict(doc, k)

\* No input is password-typed, has an auth keyword or has auth context.
NoEvidence ==
    \A k \in 1..Len(doc.inputs) :
        /\ Attr(doc.inputs[k], "type") # "password"
        /\ ~HasAuthKeyword(k)
        /\ ~HasAuthContext(k)

\* C12: a document in which no input is password-typed, none has an auth keyword
\* in its attributes and none has auth context yields the empty negative report.
C12_NoEvidenceIsNegative ==
    (Returned /\ NoEvidence) => result = EmptyReport

\* The index of the input of the given type, when the document is a form whose
\* only inputs are that one and one other.
TypedInput(type) == CHOOSE k \in 1..Len(doc.inputs) : Attr(doc.inputs[k], "type") = type

\* The document is a form whose only inputs are an email input and a password input.
EmailPasswordForm ==
    /\ Len(doc.spine) = 3
    /\ doc.spine[3].tag = "form"
    /\ Len(doc.inputs) = 2
    /\ \A k \in 1..2 : doc.inputs[k].at = 3
    /\ {Attr(doc.inputs[k], "type") : k \in 1..2} = {"email", "password"}

\* C13: for a form whose only inputs are one email input and one password input
\* the report is positive, formElement is the form's outer markup, passwordInputs
\* holds exactly the password input and otherInputs exactly the email input.
C13_EmailPasswordForm ==
    (Returned /\ EmailPasswordForm) =>
        /\ result.hasPasswordInput
        /\ result.formElement = OuterHTML(doc, 3)
        /\ Len(result.passwordInputs) = 1
        /\ SameTriple(result.passwordInputs[1], TripleOf(TypedInput("password")))
        /\ Len(result.otherInputs) = 1
        /\ result.otherInputs[1].id = TripleOf(TypedInput("email")).id
        /\ result.otherInputs[1].name = TripleOf(TypedInput("email")).name

\* The earlier calls on the document of the current call.
EarlierRuns == {i \in 1..Len(reports) : reports[i].doc = doc}

Candidates == {authInputs[i] : i \in 1..Len(authInputs)}

\* C21: deduplication collapses two candidates only when their (id, name, type)
\* triples are identical: in a positive report every password candidate has a
\* descriptor with its triple in passwordInputs, and every other candidate a
\* descriptor with its id and name in otherInputs.
C21_DistinctTriplesReported ==
    (Returned /\ result.hasPasswordInput) =>
        \A k \in Candidates :
            IF Attr(doc.inputs[k], "type") = "password"
            THEN \E i \in 1..Len(result.passwordInputs) :
                     SameTriple(result.passwordInputs[i], TripleOf(k))
            ELSE \E i \in 1..Len(result.otherInputs) :
                     /\ result.otherInputs[i].id = TripleOf(k).id
                     /\ result.otherInputs[i].name = TripleOf(k).name

\* No input of the document is password-typed.
NoPasswordInput ==
    \A k \in 1..Len(doc.inputs) : Attr(doc.inputs[k], "type") # "password"

\* C22: a document without password inputs whose surviving candidates include an
\* input of type email yields a positive report, with or without an id on that
\* input.
C22_EmailTypeMatchesIdentity ==
    ( /\ Returned
      /\ NoPasswordInput
      /\ \E i \in 1..Len(allAuthInputs) : allAuthInputs[i].type = "email" ) =>
        result.hasPasswordInput

\* The ancestors the walk examined and found eligible.
EligibleExamined == {i \in examined : Eligible(mode, doc, i)}

\* C23: among the eligible ancestors the walk examined, the selected container
\* attains the highest score and is the innermost that does: an outer ancestor of
\* equal score does not replace it.
C23_InnermostHighestScore ==
    (Located /\ EligibleExamined # {}) =>
        /\ finalParent \in EligibleExamined
        /\ \A i \in EligibleExamined :
               /\ Score(mode, doc, i) <= Score(mode, doc, finalParent)
               /\ Score(mode, doc, i) = Score(mode, doc, finalParent) => i <= finalParent

\* C23's case: an outer eligible ancestor has the score of the selected one.
C23_Witness ==
    /\ Located
    /\ \E i \in EligibleExamined :
           i < finalParent /\ Score(mode, doc, i) = Score(mode, doc, finalParent)

\* C23's other case: an outer ancestor of strictly greater score replaced an inner
\* eligible one.
C23_Replaced ==
    /\ Located
    /\ \E i \in EligibleExamined :
           i > finalParent /\ Score(mode, doc, i) < Score(mode, doc, finalParent)

\* The identity keywords and the four attributes they are looked for in.
IdentityKeywords == {"email", "username", "user"}

IdentityAttributes == {"name", "id", "placeholder", "class"}

\* An input of type email, or of type text with an identity keyword in one of
\* the four attributes.
IdentityShaped(descriptor) ==
    LET type == IF Attr(descriptor, "type") = Undefined THEN Undefined
                ELSE ToLowerCase(Attr(descriptor, "type"))
    IN  \/ type = "email"
        \/ /\ type = "text"
           /\ \E a \in IdentityAttributes : \E kw \in IdentityKeywords :
                  Includes(LowerOrEmpty(Attr(descriptor, a)), kw)

\* Element i has an identity-shaped input among its descendants.
HoldsIdentityShaped(i) ==
    \E k \in 1..Len(doc.inputs) :
        doc.inputs[k].at >= i /\ IdentityShaped(doc.inputs[k])

\* C24: an ancestor examined by the walk counts as containing an
\* email/username-shaped input (hasEmailUsername) exactly when one of its
\* descendant inputs has type email, or has type text and a name, id,
\* placeholder or class containing one of the keywords email, username or user,
\* each keyword being checked against each of the four attributes.
C24_IdentityShapeOfAncestors ==
    \A i \in examined : HasEmailUsername(doc, i) <=> HoldsIdentityShaped(i)

\* C25: eligibility of an examined ancestor follows the mode: with an
\* email/username-shaped input and a password input it is eligible in both
\* modes; with an email/username-shaped input and no password input it is
\* eligible in the permissive mode and not in the other (traditional-only) one;
\* without an email/username-shaped input it is never eligible.
C25_EligibilityFollowsMode ==
    \A i \in examined :
        /\ (HasEmailUsername(doc, i) /\ HasPassword(doc, i)) =>
               Eligible(mode, doc, i)
        /\ (HasEmailUsername(doc, i) /\ ~HasPassword(doc, i)) =>
               (Eligible(mode, doc, i) <=> mode = "permissive")
        /\ ~HasEmailUsername(doc, i) => ~Eligible(mode, doc, i)

\* One of the patterns occurs in the text of input k's parent or closest form.
TextEvidence(k, patterns) ==
    \E pattern \in patterns :
        \/ Includes(ParentText(doc, k), pattern)
        \/ Includes(FormText(doc, k), pattern)

\* One of the patterns occurs in the text of a button, submit input or link
\* near input k.
ButtonEvidence(k, patterns) == SomeIncluded(patterns, ButtonText(doc, k))

\* Input k is not of type password.
NotPasswordTyped(k) == Attr(doc.inputs[k], "type") # "password"

\* C26: in the permissive variant, once the inputs are filtered, a non-password
\* input is a candidate whenever its joined lower-cased attribute string
\* contains an auth keyword, or auth text is found in its parent's or closest
\* form's text, or auth text is found in a nearby button, submit input or link:
\* either kind of context evidence suffices.
C26_PermissiveKeywordOrContext ==
    (mode = "permissive" /\ pc # "filter") =>
        \A k \in 1..Len(doc.inputs) :
            ( /\ NotPasswordTyped(k)
              /\ \/ SomeIncluded(authKeywords, Attributes(doc.inputs[k]))
                 \/ TextEvidence(k, authTextPatterns)
                 \/ ButtonEvidence(k, authButtonPatterns) ) =>
                k \in Candidates

\* C26's case: a candidate of the permissive variant that has no auth keyword
\* and no text evidence, only button evidence.
C26_Witness ==
    /\ mode = "permissive"
    /\ pc # "filter"
    /\ \E k \in Candidates :
           /\ NotPasswordTyped(k)
           /\ ~SomeIncluded(authKeywords, Attributes(doc.inputs[k]))
           /\ ~TextEvidence(k, authTextPatterns)
           /\ ButtonEvidence(k, authButtonPatterns)

\* Input k has a strong identity keyword, strong auth text and strong auth
\* button text.
MeetsAllThree(k) ==
    /\ SomeIncluded(strongAuthKeywords, Attributes(doc.inputs[k]))
    /\ TextEvidence(k, strongAuthTextPatterns)
    /\ ButtonEvidence(k, strongAuthButtonPatterns)

\* C27: in the strict variant a non-password input is a candidate only if its
\* attributes contain a strong identity keyword and both strong auth text
\* (parent or closest form) and strong auth button text are present; hence a
\* document with no password input gets a positive report in strict mode only
\* when some input meets all three conditions.
C27_StrictKeywordAndContext ==
    mode = "strict" =>
        /\ \A k \in Candidates : NotPasswordTyped(k) => MeetsAllThree(k)
        /\ (Returned /\ NoPasswordInput /\ result.hasPasswordInput) =>
               \E k \in 1..Len(doc.inputs) : MeetsAllThree(k)

\* C27's case: a positive report of the strict variant for a document without
\* a password input.
C27_Witness ==
    /\ mode = "strict"
    /\ Returned
    /\ NoPasswordInput
    /\ result.hasPasswordInput

(***************************************************************************)
(* Properties of the POST handler                                          *)
(***************************************************************************)

FetchReturned == fpc = "done"

\* What the upstream site did at the last attempt the handler made.
LastOutcome == upstream[Len(upstream)].outcome

\* The attempt threw: fetch() did, or reading the body of its response did.
Threw(outcome) ==
    \/ outcome.kind = "throw"
    \/ outcome.kind = "response" /\ outcome.readError # NoError

\* The attempt returned a non-ok response that carries an incompatible-browser
\* marker, as the claims word it: one of the handler's three phrases.
NonOkWithMarker(outcome) ==
    /\ outcome.kind = "response"
    /\ ~outcome.ok
    /\ outcome.readError = NoError
    /\ \E phrase \in {"incompatible-browser", "browser not supported",
                       "please use a modern browser"} : Includes(outcome.body, phrase)

\* The attempt returned a response and its body arrived.
Answered(outcome) == outcome.kind = "response" /\ outcome.readError = NoError

IsErrorReply(r) ==
    /\ "error" \in DOMAIN r.json
    /\ Truthy(r.json.error)
    /\ r.status \in 400..599

\* C15: at most 3 upstream attempts per request, in the order of the header sets;
\* every attempt but the last one made threw or returned a non-ok response with an
\* incompatible-browser marker, so none follows an ok response or another non-ok
\* response.
C15_BoundedOrderedAttempts ==
    /\ Len(upstream) <= 3
    /\ \A i \in 1..Len(upstream) : upstream[i].headers = fetchAttempts[i]
    /\ \A i \in 1..(Len(upstream) - 1) :
           Threw(upstream[i].outcome) \/ NonOkWithMarker(upstream[i].outcome)

\* C15's case: a throwing attempt, then a non-ok response with the marker, then a
\* third attempt that is answered ok, after which the handler returned.
C15_Witness ==
    /\ FetchReturned
    /\ Len(upstream) = 3
    /\ upstream[1].outcome.kind = "throw"
    /\ NonOkWithMarker(upstream[2].outcome)
    /\ Answered(upstream[3].outcome) /\ upstream[3].outcome.ok

\* C16: when the upstream site answered the last attempt made with a non-2xx
\* response, the handler returns an error response with that status code.
C16_NonOkStatusSurfaced ==
    (FetchReturned /\ Len(upstream) > 0 /\ Answered(LastOutcome) /\ ~LastOutcome.ok) =>
        IsErrorReply(reply) /\ reply.status = LastOutcome.status

\* C17: the reply carries html only when the upstream response was ok with a
\* content type containing text/html; an ok response of another content type is
\* answered by a 400 error without html.
C17_OnlyHtmlIsReturned ==
    FetchReturned =>
        /\ "html" \in DOMAIN reply.json =>
               /\ Len(upstream) > 0
               /\ Answered(LastOutcome) /\ LastOutcome.ok
               /\ Includes(Or(LastOutcome.contentType, ""), "text/html")
        /\ ( /\ Len(upstream) > 0
              /\ Answered(LastOutcome) /\ LastOutcome.ok
              /\ ~Includes(Or(LastOutcome.contentType, ""), "text/html") ) =>
               /\ IsErrorReply(reply)
               /\ reply.status = 400
               /\ "html" \notin DOMAIN reply.json

\* C17's case: an ok upstream response of content type text/plain, answered.
C17_Witness ==
    /\ FetchReturned
    /\ Len(upstream) > 0
    /\ Answered(LastOutcome) /\ LastOutcome.ok
    /\ LastOutcome.contentType = "text/plain"
    /\ reply.status = 400

\* The request fails in one of the ways the handler distinguishes.
FailedRequest ==
    \/ ~request.parseable
    \/ ~Truthy(request.url)
    \/ ~ParsesAsURL(request.url)
    \/ Len(upstream) = Len(fetchAttempts)
           /\ \A i \in 1..Len(upstream) : Threw(upstream[i].outcome)
    \/ Len(upstream) > 0 /\ LastOutcome.kind = "response" /\ ~LastOutcome.ok
    \/ Len(upstream) > 0 /\ LastOutcome.kind = "response" /\ LastOutcome.ok
           /\ ~Includes(Or(LastOutcome.contentType, ""), "text/html")

\* C18: no exception leaves the handler, every call of it returns, and a request
\* that fails is answered by a JSON response with an error message and an error
\* status.
C18_ErrorsAreReturned ==
    /\ [](fpc # "escaped")
    /\ []((FetchReturned /\ FailedRequest) => IsErrorReply(reply))
    /\ <>FetchReturned

\* C18's case: the body of an ok response fails to arrive after the loop, and the
\* outer catch clause answers.
C18_Witness ==
    /\ FetchReturned
    /\ Len(upstream) > 0
    /\ LastOutcome.kind = "response" /\ LastOutcome.ok
    /\ LastOutcome.readError # NoError
    /\ IsErrorReply(reply)

(***************************************************************************)
(* Properties of the page                                                  *)
(***************************************************************************)

\* The normalized form of the field's value is the url of an entry.
Listed == \E i \in 1..Len(urls) : urls[i].url = NormalizeUrl(input)

\* The field holds a valid URL.
ValidUrl == Truthy(Trim(input)) /\ IsURL(NormalizeUrl(input))

\* The field holds a valid URL that is not yet listed.
NewValidUrl == ValidUrl /\ ~Listed

LimitMessage == [text |-> "5 URLs limit reached.", error |-> TRUE]

\* C19: the URL list holds at most 5 entries, and a submit of a URL while it holds
\* 5 leaves it unchanged and sets the limit error message.
C19_AtMostFive ==
    /\ [](Len(urls) <= 5)
    /\ [][(lastOp' = "submit" /\ Len(urls) = 5 /\ ValidUrl) =>
              (urls' = urls /\ message' = LimitMessage)]_vars

\* C19, amended: the URL list holds at most 5 entries; a submit while it holds 5
\* leaves it unchanged and sets an error message, which is the limit message when
\* the value submitted is a valid URL not yet listed.
C19_AtMostFive_Amended ==
    /\ [](Len(urls) <= 5)
    /\ [][(lastOp' = "submit" /\ Len(urls) = 5) =>
              /\ urls' = urls
              /\ message'.error = TRUE
              /\ NewValidUrl => message' = LimitMessage]_vars

\* C19's case: a submit of a new valid URL was refused at 5 entries.
C19_Witness ==
    /\ lastOp = "submit"
    /\ Len(urls) = 5
    /\ NewValidUrl
    /\ message = LimitMessage

\* C20: no two entries of the URL list have the same normalized URL, and a submit
\* of a value whose normalized form is listed leaves the list unchanged and sets an
\* error message.
C20_NoDuplicateUrls ==
    /\ [](\A i, j \in 1..Len(urls) :
             i # j => NormalizeUrl(urls[i].url) # NormalizeUrl(urls[j].url))
    /\ [][(lastOp' = "submit" /\ Listed) =>
              /\ urls' = urls
              /\ message'.error = TRUE
              /\ Truthy(message'.text)]_vars

\* C20's case: a submit of another spelling of a listed URL was refused.
C20_Witness ==
    /\ lastOp = "submit"
    /\ Listed
    /\ input # NormalizeUrl(input)
    /\ Len(urls) > 1
    /\ urls[1].url = NormalizeUrl(input)
    /\ message = [text |-> "This URL has already been added.", error |-> TRUE]


\* The card of entry i is rendered expanded (isExpanded).
IsExpanded(i) == expandedCardId = urls[i].id

\* expandedCardId is null or the id of a card of the list.
ExpandedIsListed ==
    expandedCardId = Null \/ \E i \in 1..Len(urls) : IsExpanded(i)

\* C30: after any sequence of submit, remove and card-toggle operations,
\* expandedCardId is null or the id of a card of the list and at most one card
\* is expanded; toggling a card expands it (collapsing any other) unless it was
\* the expanded one, which it collapses; removing the expanded card resets
\* expandedCardId to null.
C30_AtMostOneExpandedCard ==
    /\ [](ExpandedIsListed /\ Cardinality({i \in 1..Len(urls) : IsExpanded(i)}) <= 1)
    /\ [][lastOp' = "toggle" =>
             /\ expandedCardId' # expandedCardId
             /\ expandedCardId # Null =>
                    \/ expandedCardId' = Null
                    \/ \E i \in 1..Len(urls) : expandedCardId' = urls[i].id
             /\ expandedCardId = Null => expandedCardId' # Null]_vars
    /\ [][(lastOp' = "remove" /\ expandedCardId # Null
              /\ \A i \in 1..Len(urls') : urls'[i].id # expandedCardId) =>
             expandedCardId' = Null]_vars

\* C30's case: cards were added, one was expanded and another was then removed;
\* the expanded one is still on the page.
C30_Witness ==
    /\ lastOp = "remove"
    /\ expandedCardId # Null
    /\ \E i \in 1..Len(urls) : IsExpanded(i)
    /\ Len(urls) >= 2


\* C29: the URL list persisted in localStorage is never overwritten before the
\* stored list has been loaded into state: under every interleaving of mount
\* effects, re-renders and a beforeunload event, a write that replaces the
\* stored item happens only after hydration, so a list saved by an earlier
\* session survives a page load.
C29_StoredListSurvivesLoad ==
    [][(storage # Null /\ storage' # storage) => isHydrated]_vars


\* The name of a tag: the letters after its <, in lower case.
TagNameOf(part) ==
    LET inner == SubSeq(part, 2, Len(part))
        ends  == {IndexOf(inner, char) : char \in {" ", "/", ">"}} \ {0}
        stop  == CHOOSE i \in ends : \A j \in ends : i <= j
    IN  ToLowerCase(SubSeq(inner, 1, stop - 1))

\* C28: in formatHtml an opening tag increases the indent of the following
\* lines by one exactly when it is not self-closing and its tag name is not in
\* the void-element set; every closing tag decreases the indent by one before it
\* is emitted; the indent level never goes below zero.
C28_IndentFollowsTags ==
    /\ indentLevel >= 0
    /\ \A j \in 1..Len(emitted) :
           LET tag == emitted[j]
           IN  IF StartsWith(tag.part, "</")
               THEN /\ tag.indent = Max(0, tag.before - 1)
                    /\ tag.after = tag.indent
               ELSE /\ tag.indent = tag.before
                    /\ tag.after = tag.before + 1
                           <=> /\ ~EndsWith(tag.part, "/>")
                               /\ TagNameOf(tag.part) \notin VoidElements
                    /\ tag.after \in {tag.before, tag.before + 1}

====
